---- MODULE Spec2Model ----
(***************************************************************************)
(* Texas Hold'em rules engine of rajpreetcodes/Poker-Webapp: the hand     *)
(* evaluator (server/evaluate.js), the pot manager and player ledger       *)
(* (server/game.js) and the betting state machine with its deferred        *)
(* callbacks (server/index.js).                                            *)
(***************************************************************************)
EXTENDS Integers, Sequences, FiniteSets, TLC

VARIABLES
    players,      \* gameState.players: the seat list, a sequence of Player records
    hs,           \* gameState.handState (phase "none" while it is null)
    deck,         \* gameState.deck.cards: dealt from the end
    roomDealer,   \* gameState.dealerIndex
    turnTimer,    \* turnTimers[roomId]: 0, or the id of the seat the countdown captured
    pbrPending,   \* pending setTimeout(processBettingRound, 100) callbacks
    pbaPending,   \* pending setTimeout(processBotActions, 500) callbacks
    botThink,     \* pending bot decision callbacks: a function seat id -> count
    nextHand,     \* pending setTimeout(startHand, 5000) callbacks
    handsStarted, \* number of startHand runs so far
    crashed,      \* an uncaught TypeError ended the server process
    lateActions,  \* actions handled since the first settlement (bounds the run)
    last,         \* what the last step did (observation only)
    evalIn,       \* harness: the inputs handed to the function under test
    evalOut       \* harness: the results returned for evalIn

gameVars == <<players, hs, deck, roomDealer, turnTimer, pbrPending, pbaPending,
              botThink, nextHand, handsStarted, crashed, lateActions, last>>
evalVars == <<evalIn, evalOut>>
vars == <<players, hs, deck, roomDealer, turnTimer, pbrPending, pbaPending,
          botThink, nextHand, handsStarted, crashed, lateActions, last, evalIn, evalOut>>

(***************************************************************************)
(* Cards                                                                   *)
(***************************************************************************)
suits == <<"S", "H", "D", "C">>
ranks == <<"A", "2", "3", "4", "5", "6", "7", "8", "9", "10", "J", "Q", "K">>
SuitSet == {suits[i] : i \in 1..Len(suits)}
RankSet == {ranks[i] : i \in 1..Len(ranks)}
Card(r, s) == [suit |-> s, rank |-> r]
AllCards == {Card(r, s) : r \in RankSet, s \in SuitSet}

rankOrder ==
    [r \in RankSet |->
        CASE r = "A" -> 14 [] r = "K" -> 13 [] r = "Q" -> 12 [] r = "J" -> 11
          [] r = "10" -> 10 [] r = "9" -> 9 [] r = "8" -> 8 [] r = "7" -> 7
          [] r = "6" -> 6 [] r = "5" -> 5 [] r = "4" -> 4 [] r = "3" -> 3
          [] r = "2" -> 2]

Pow100(n) == CASE n = 0 -> 1 [] n = 1 -> 100 [] n = 2 -> 10000
               [] n = 3 -> 1000000 [] n = 4 -> 100000000

(***************************************************************************)
(* Array helpers of the evaluator                                          *)
(***************************************************************************)
\* Array.prototype.sort with (a, b) => rankOrder[b.rank] - rankOrder[a.rank]: stable, descending
RECURSIVE InsertByRank(_, _)
InsertByRank(c, s) ==
    IF s = <<>> THEN <<c>>
    ELSE IF rankOrder[Head(s).rank] >= rankOrder[c.rank]
         THEN <<Head(s)>> \o InsertByRank(c, Tail(s))
         ELSE <<c>> \o s

RECURSIVE sortByRank(_)
sortByRank(cards) ==
    IF cards = <<>> THEN <<>>
    ELSE InsertByRank(cards[Len(cards)], sortByRank(SubSeq(cards, 1, Len(cards) - 1)))

\* sort((a, b) => b - a) on numbers
RECURSIVE InsertDesc(_, _)
InsertDesc(x, s) ==
    IF s = <<>> THEN <<x>>
    ELSE IF Head(s) >= x THEN <<Head(s)>> \o InsertDesc(x, Tail(s))
         ELSE <<x>> \o s

RECURSIVE sortDesc(_)
sortDesc(s) ==
    IF s = <<>> THEN <<>>
    ELSE InsertDesc(s[Len(s)], sortDesc(SubSeq(s, 1, Len(s) - 1)))

\* [...new Set(values)].sort((a, b) => b - a)
RECURSIVE SetToDesc(_)
SetToDesc(S) ==
    IF S = {} THEN <<>>
    ELSE LET m == CHOOSE x \in S : \A y \in S : y <= x
         IN  <<m>> \o SetToDesc(S \ {m})

\* Object.keys(rankCounts).filter(r => rankCounts[r] === n).sort(by rankOrder, descending)
keysWithCount(rankCounts, n) ==
    LET vals == {rankOrder[r] : r \in {k \in DOMAIN rankCounts : rankCounts[k] = n}}
    IN  SetToDesc(vals)

\* counts[i] of a JavaScript array: undefined (here 0) past the end
At(s, i) == IF i \in DOMAIN s THEN s[i] ELSE 0

(***************************************************************************)
(* evaluateFiveCards                                                       *)
(***************************************************************************)
\* mutant of straightOf: the wheel is found but its high card stays the ace
straightOfAceHigh(uniqueValues) ==
    LET n == Len(uniqueValues)
        regular == {i \in 1..(n - 4) :
                       \A j \in 1..4 : uniqueValues[i + j] = uniqueValues[i] - j}
        has(v) == \E k \in 1..n : uniqueValues[k] = v
    IN  IF regular # {}
        THEN <<TRUE, uniqueValues[CHOOSE i \in regular : \A k \in regular : i <= k]>>
        ELSE IF has(14) /\ has(5) /\ has(4) /\ has(3) /\ has(2)
             THEN <<TRUE, 14>>
             ELSE <<FALSE, 0>>

\* The straight test on uniqueValues (descending, distinct): <<isStraight, straightHigh>>
straightOf(uniqueValues) ==
    LET n == Len(uniqueValues)
        regular == {i \in 1..(n - 4) :
                       \A j \in 1..4 : uniqueValues[i + j] = uniqueValues[i] - j}
        has(v) == \E k \in 1..n : uniqueValues[k] = v
    IN  IF regular # {}
        THEN <<TRUE, uniqueValues[CHOOSE i \in regular : \A k \in regular : i <= k]>>
        ELSE IF has(14) /\ has(5) /\ has(4) /\ has(3) /\ has(2)
             THEN <<TRUE, 5>>
             ELSE <<FALSE, 0>>

\* score of the Flush and High Card branches: sum of sortedValues[i] * 100^(4-i)
positional(sortedValues) ==
    sortedValues[1] * Pow100(4) + sortedValues[2] * Pow100(3) + sortedValues[3] * Pow100(2)
      + sortedValues[4] * Pow100(1) + sortedValues[5] * Pow100(0)

\* mutant of onePairScore: the last kicker is left out
onePairScoreTwoKickers(pair, kickers) ==
    1000000 + pair * 10000 + kickers[1] * 100 + kickers[2] * 10

\* score of the One Pair branch
onePairScore(pair, kickers) ==
    1000000 + pair * 10000 + kickers[1] * 100 + kickers[2] * 10 + kickers[3]

evaluateFiveCards(cards) ==
    LET sorted == sortByRank(cards)
        rks == [i \in 1..Len(sorted) |-> sorted[i].rank]
        sts == [i \in 1..Len(sorted) |-> sorted[i].suit]
        present == {rks[i] : i \in 1..Len(rks)}
        rankCounts == [r \in present |-> Cardinality({i \in 1..Len(rks) : rks[i] = r})]
        keyVals == SetToDesc({rankOrder[r] : r \in present})
        counts == sortDesc([i \in 1..Len(keyVals) |->
                      Cardinality({j \in 1..Len(rks) : rankOrder[rks[j]] = keyVals[i]})])
        isFlush == \A i \in 1..Len(sts) : sts[i] = sts[1]
        rankValues == [i \in 1..Len(rks) |-> rankOrder[rks[i]]]
        sortedValues == sortDesc(rankValues)
        uniqueValues == SetToDesc({sortedValues[i] : i \in 1..Len(sortedValues)})
        st == straightOf(uniqueValues)
        isStraight == st[1]
        straightHigh == st[2]
        k4 == keysWithCount(rankCounts, 4)
        k3 == keysWithCount(rankCounts, 3)
        k2 == keysWithCount(rankCounts, 2)
        k1 == keysWithCount(rankCounts, 1)
    IN  IF isFlush /\ isStraight /\ straightHigh = 14
        THEN [rank |-> "Royal Flush", score |-> 9000000 + straightHigh, cards |-> sorted]
        ELSE IF isFlush /\ isStraight
        THEN [rank |-> "Straight Flush", score |-> 8000000 + straightHigh, cards |-> sorted]
        ELSE IF At(counts, 1) = 4
        THEN [rank |-> "Four of a Kind",
              score |-> 7000000 + k4[1] * 100 + k1[1], cards |-> sorted]
        ELSE IF At(counts, 1) = 3 /\ At(counts, 2) = 2
        THEN [rank |-> "Full House",
              score |-> 6000000 + k3[1] * 100 + k2[1], cards |-> sorted]
        ELSE IF isFlush
        THEN [rank |-> "Flush", score |-> 5000000 + positional(sortedValues), cards |-> sorted]
        ELSE IF isStraight
        THEN [rank |-> "Straight", score |-> 4000000 + straightHigh, cards |-> sorted]
        ELSE IF At(counts, 1) = 3
        THEN [rank |-> "Three of a Kind",
              score |-> 3000000 + k3[1] * 10000 + k1[1] * 100 + k1[2], cards |-> sorted]
        ELSE IF At(counts, 1) = 2 /\ At(counts, 2) = 2
        THEN [rank |-> "Two Pair",
              score |-> 2000000 + k2[1] * 10000 + k2[2] * 100 + k1[1], cards |-> sorted]
        ELSE IF At(counts, 1) = 2
        THEN [rank |-> "One Pair",
              score |-> onePairScore(k2[1], k1),
              cards |-> sorted]
        ELSE [rank |-> "High Card", score |-> positional(sortedValues), cards |-> sorted]

(***************************************************************************)
(* evaluateHand                                                            *)
(***************************************************************************)
RECURSIVE getCombinations(_, _)
getCombinations(arr, k) ==
    IF k = 1 THEN [i \in 1..Len(arr) |-> <<arr[i]>>]
    ELSE IF k = Len(arr) THEN <<arr>>
    ELSE LET RECURSIVE fromIndex(_)
             fromIndex(i) ==
                 IF i > Len(arr) - k + 1 THEN <<>>
                 ELSE LET tailCombos == getCombinations(SubSeq(arr, i + 1, Len(arr)), k - 1)
                      IN  [j \in 1..Len(tailCombos) |-> <<arr[i]>> \o tailCombos[j]]
                            \o fromIndex(i + 1)
         IN  fromIndex(1)

NullHand == [rank |-> "null", score |-> 0]
InvalidHand == [rank |-> "Invalid", score |-> 0]

\* the loop over the combinations: keeps the first evaluation whose score exceeds bestScore
RECURSIVE bestOf(_, _, _)
bestOf(combinations, i, bestHand) ==
    IF i > Len(combinations) THEN bestHand
    ELSE LET evaluation == evaluateFiveCards(combinations[i])
         IN  bestOf(combinations, i + 1,
                    IF evaluation.score > bestHand.score THEN evaluation ELSE bestHand)

\* evaluateHand scoring the first five cards only
evaluateHandFirstFive(sevenCards) ==
    IF Len(sevenCards) < 5 THEN InvalidHand
    ELSE evaluateFiveCards(SubSeq(sevenCards, 1, 5))

evaluateHand(sevenCards) ==
    IF Len(sevenCards) < 5 THEN InvalidHand
    ELSE bestOf(getCombinations(sevenCards, 5), 1, NullHand)

(***************************************************************************)
(* Player (game.js)                                                        *)
(***************************************************************************)
Min(a, b) == IF a < b THEN a ELSE b

newPlayer(id, chips, isBot) ==
    [id |-> id, chips |-> chips, hand |-> <<>>, currentBet |-> 0,
     hasFolded |-> FALSE, isAllIn |-> FALSE, hasActed |-> FALSE, isBot |-> isBot]

\* mutant of bet: the bet is booked but the chips stay in the stack
betKeepsStack(p, amount) ==
    LET betAmount == Min(amount, p.chips)
    IN  [p EXCEPT !.currentBet = p.currentBet + betAmount,
                  !.isAllIn = p.isAllIn \/ (p.chips - betAmount = 0)]

\* Player.bet: the player after the bet (the amount moved is Min(amount, chips))
bet(p, amount) ==
    LET betAmount == Min(amount, p.chips)
    IN  [p EXCEPT !.chips = p.chips - betAmount,
                  !.currentBet = p.currentBet + betAmount,
                  !.isAllIn = p.isAllIn \/ (p.chips - betAmount = 0)]

fold(p) == [p EXCEPT !.hasFolded = TRUE]

resetForNewHand(p) ==
    [p EXCEPT !.hand = <<>>, !.currentBet = 0, !.hasFolded = FALSE,
              !.isAllIn = FALSE, !.hasActed = FALSE]

\* resetForNewBettingRound leaving hasActed as it was
resetBetOnly(p) == [p EXCEPT !.currentBet = 0]

resetForNewBettingRound(p) == [p EXCEPT !.currentBet = 0, !.hasActed = FALSE]

(***************************************************************************)
(* PotManager (game.js)                                                    *)
(***************************************************************************)
newPot == [amount |-> 0, contributors |-> {}]
newPotManager == <<newPot>>

RECURSIVE SumSeq(_)
SumSeq(s) == IF s = <<>> THEN 0 ELSE Head(s) + SumSeq(Tail(s))

\* mutant of collectPass: the side pot is never opened
closesPotNever(ps, contributors) == FALSE

\* after one pass: some contributor is all-in with nothing left, and bets remain
closesPot(ps, contributors) ==
    /\ \E i \in contributors : ps[i].isAllIn /\ ps[i].currentBet = 0
    /\ \E i \in 1..Len(ps) : ps[i].currentBet > 0

\* one iteration that books the smallest bet once, whatever the number of
\* players it was taken from
collectPassCountsOnce(pots, ps) ==
    LET positive == {i \in 1..Len(ps) : ps[i].currentBet > 0}
        minBet == CHOOSE b \in {ps[i].currentBet : i \in positive} :
                      \A i \in positive : b <= ps[i].currentBet
        n == Len(pots)
        ps2 == [i \in 1..Len(ps) |->
                  IF i \in positive
                  THEN [ps[i] EXCEPT !.currentBet = ps[i].currentBet - Min(ps[i].currentBet, minBet)]
                  ELSE ps[i]]
        pots2 == [pots EXCEPT ![n] = [amount |-> pots[n].amount + minBet,
                                      contributors |-> pots[n].contributors
                                                         \cup {ps[i].id : i \in positive}]]
    IN  [pots |-> IF closesPot(ps2, positive) THEN Append(pots2, newPot) ELSE pots2,
         players |-> ps2]

\* one iteration of the while loop of collectBets
collectPass(pots, ps) ==
    LET positive == {i \in 1..Len(ps) : ps[i].currentBet > 0}
        minBet == CHOOSE b \in {ps[i].currentBet : i \in positive} :
                      \A i \in positive : b <= ps[i].currentBet
        n == Len(pots)
        ps2 == [i \in 1..Len(ps) |->
                  IF i \in positive
                  THEN [ps[i] EXCEPT !.currentBet = ps[i].currentBet - Min(ps[i].currentBet, minBet)]
                  ELSE ps[i]]
        taken == SumSeq([i \in 1..Len(ps) |->
                           IF i \in positive THEN Min(ps[i].currentBet, minBet) ELSE 0])
        pots2 == [pots EXCEPT ![n] = [amount |-> pots[n].amount + taken,
                                      contributors |-> pots[n].contributors
                                                         \cup {ps[i].id : i \in positive}]]
    IN  [pots |-> IF closesPot(ps2, positive) THEN Append(pots2, newPot) ELSE pots2,
         players |-> ps2]

\* PotManager.collectBets(players): the pots and the players afterwards
RECURSIVE collectBets(_, _)
collectBets(pots, ps) ==
    IF \A i \in 1..Len(ps) : ps[i].currentBet <= 0
    THEN [pots |-> pots, players |-> ps]
    ELSE LET r == collectPass(pots, ps)
         IN  collectBets(r.pots, r.players)

(***************************************************************************)
(* Deck and HandState (game.js)                                            *)
(***************************************************************************)
UndefinedCard == [suit |-> "undefined", rank |-> "undefined"]

\* Deck.dealCards(count): pops from the end; <<the cards in dealing order, the deck left>>
RECURSIVE dealCards(_, _)
dealCards(cards, count) ==
    IF count = 0 THEN <<<<>>, cards>>
    ELSE LET top == IF cards = <<>> THEN UndefinedCard ELSE cards[Len(cards)]
             rest == IF cards = <<>> THEN <<>> ELSE SubSeq(cards, 1, Len(cards) - 1)
             more == dealCards(rest, count - 1)
         IN  <<<<top>> \o more[1], more[2]>>

NoHand == [phase |-> "none"]

newHandState ==
    [phase |-> "preflop", communityCards |-> <<>>, pot |-> 0, currentBet |-> 0,
     dealerIndex |-> 0, smallBlindIndex |-> 0, bigBlindIndex |-> 0,
     currentPlayerIndex |-> 0, blindsPosted |-> FALSE, winners |-> <<>>,
     pots |-> newPotManager]

(***************************************************************************)
(* The room: configuration and policy constants (index.js)                 *)
(***************************************************************************)
SmallBlind == 10
BigBlind == 20
MinRaisePreflop == 20
MinRaiseLater == 10

MaxPending == 2         \* deferred callbacks pending at once (the turn timer aside)
MaxHands == 2           \* runs of startHand
MaxLateActions == 1     \* actions handled after the first settlement

\* three seats: two human seats and one bot
SeatIsBot == <<FALSE, FALSE, TRUE>>
NumSeats == Len(SeatIsBot)
SeatIds == 1..NumSeats

\* the chips of the seats when the first modelled hand is started (short
\* stacks, so that all-ins and side pots happen within a few actions)
StackChoices == {<<20, 60, 60>>, <<60, 40, 20>>}

\* raise amounts a client or the bot policy may send (besides the whole stack)
RaiseAmounts == {0, 10, 40}

action(type, amount) == [type |-> type, amount |-> amount]

(***************************************************************************)
(* Room state as one record, and the helpers of index.js                   *)
(***************************************************************************)
Room ==
    [players |-> players, hs |-> hs, deck |-> deck, roomDealer |-> roomDealer,
     turnTimer |-> turnTimer, pbr |-> pbrPending, pba |-> pbaPending,
     botThink |-> botThink, nextHand |-> nextHand, hands |-> handsStarted,
     crashed |-> crashed]

\* players.filter(p => !p.hasFolded && p.chips > 0)
isActive(p) == ~p.hasFolded /\ p.chips > 0
activeOf(ps) == SelectSeq(ps, isActive)

\* findIndex(p => p.id === id), 0-based; -1 when absent
findIndex(ps, id) ==
    IF \E i \in 1..Len(ps) : ps[i].id = id
    THEN (CHOOSE i \in 1..Len(ps) : ps[i].id = id) - 1
    ELSE -1

\* the seat list with the player of this id replaced
withPlayer(ps, q) == [i \in 1..Len(ps) |-> IF ps[i].id = q.id THEN q ELSE ps[i]]

stopTurnTimer(g) == [g EXCEPT !.turnTimer = 0]

startTurnTimer(g) ==
    LET g0 == stopTurnTimer(g)
        activePlayers == activeOf(g.players)
        cpi == IF g.hs.phase = "none" THEN 0 ELSE g.hs.currentPlayerIndex
    IN  IF g.hs.phase = "none" THEN g0
        ELSE IF Len(activePlayers) <= 1 THEN g0
        ELSE IF (cpi + 1) \notin DOMAIN activePlayers THEN g0
        ELSE IF activePlayers[cpi + 1].isBot THEN g0
        ELSE [g0 EXCEPT !.turnTimer = activePlayers[cpi + 1].id]

\* the elements of s at the indices in I, in order (Array.prototype.filter)
filterAt(s, I) ==
    LET F[n \in 0..Len(s)] ==
            IF n = 0 THEN <<>>
            ELSE IF n \in I THEN Append(F[n - 1], s[n]) ELSE F[n - 1]
    IN  F[Len(s)]

\* the deck as an array whose last element is dealt first
RECURSIVE reverse(_)
reverse(s) == IF s = <<>> THEN <<>> ELSE Append(reverse(Tail(s)), Head(s))

\* the cards a shuffled deck deals, in dealing order: two to each seat, then
\* the flop, the turn and the river (the rest of the 52 cards is never dealt)
DealA ==
    <<Card("A", "S"), Card("A", "H"),   Card("K", "S"), Card("K", "H"),
      Card("2", "C"), Card("7", "D"),
      Card("3", "D"), Card("8", "C"), Card("9", "H"), Card("J", "S"), Card("4", "C")>>
DealB ==
    <<Card("A", "S"), Card("2", "H"),   Card("A", "H"), Card("3", "D"),
      Card("5", "C"), Card("6", "C"),
      Card("10", "S"), Card("J", "D"), Card("Q", "H"), Card("K", "C"), Card("4", "D")>>
SampleDeals == {DealA, DealB}
ShuffledDecks == {reverse(d) : d \in SampleDeals}
\* the decks the hands after the first are dealt from
LaterDecks == {reverse(DealB)}

\* evaluateHand on the card sets the sampled deals can put before it (a
\* seat's two cards and a board of 0, 3, 4 or 5 cards, which is the board of
\* the hand before when a hand was dealt but not started), computed once
dealtCardSets ==
    UNION {{<<d[2 * i - 1], d[2 * i]>> \o SubSeq(b, 2 * NumSeats + 1, 2 * NumSeats + n) :
               i \in SeatIds, n \in {0, 3, 4, 5}} : d \in SampleDeals, b \in SampleDeals}
evaluatedDealt == [c \in dealtCardSets |-> evaluateHand(c)]
evaluateDealt(c) == IF c \in dealtCardSets THEN evaluatedDealt[c] ELSE evaluateHand(c)

(***************************************************************************)
(* endHand (index.js)                                                      *)
(***************************************************************************)
\* the score of the first evaluation taken for the best one
maxScoreOfFirst(es) == es[1].evaluation.score

maxScore(es) ==
    CHOOSE m \in {es[i].evaluation.score : i \in 1..Len(es)} :
        \A i \in 1..Len(es) : es[i].evaluation.score <= m

\* pots.forEach of the showdown branch, from pot k on
RECURSIVE distributePots(_, _, _, _, _)
distributePots(pots, k, ps, winners, evaluations) ==
    IF k > Len(pots) THEN [players |-> ps, winners |-> winners]
    ELSE LET pot == pots[k]
             eligibleEvaluations ==
                 filterAt(evaluations, {i \in 1..Len(evaluations) :
                                            evaluations[i].id \in pot.contributors})
         IN  IF pot.amount = 0 \/ eligibleEvaluations = <<>>
             THEN distributePots(pots, k + 1, ps, winners, evaluations)
             ELSE LET bestScore == maxScore(eligibleEvaluations)
                      won == filterAt(eligibleEvaluations,
                                      {i \in 1..Len(eligibleEvaluations) :
                                           eligibleEvaluations[i].evaluation.score = bestScore})
                      share == pot.amount \div Len(won)
                      wonIds == {won[j].id : j \in 1..Len(won)}
                      ps2 == [i \in 1..Len(ps) |->
                                IF ps[i].id \in wonIds
                                THEN [ps[i] EXCEPT !.chips = @ + share] ELSE ps[i]]
                      winners2 == winners \o
                                  [j \in 1..Len(won) |->
                                     [playerId |-> won[j].id, hand |-> won[j].evaluation,
                                      share |-> share, potIndex |-> k - 1]]
                  IN  distributePots(pots, k + 1, ps2, winners2, evaluations)

\* evaluations = activePlayers.map(...): the evaluation of hand ++ communityCards
evaluationsOf(activePlayers, communityCards) ==
    [i \in 1..Len(activePlayers) |->
        LET e == evaluateDealt(activePlayers[i].hand \o communityCards)
        IN  [id |-> activePlayers[i].id, evaluation |-> e]]

\* the payout of the pots as they were before the bets of the last street
\* were collected
settledWithoutLastBets(g, col, activePlayers) ==
    IF Len(activePlayers) = 1
    THEN LET totalWinnings == SumSeq([k \in 1..Len(g.hs.pots) |-> g.hs.pots[k].amount])
         IN  [players |-> withPlayer(col.players,
                              [col.players[findIndex(col.players, activePlayers[1].id) + 1]
                                  EXCEPT !.chips = @ + totalWinnings]),
              winners |-> <<[playerId |-> activePlayers[1].id, hand |-> NullHand,
                             share |-> totalWinnings, potIndex |-> -1]>>]
    ELSE CHOOSE out \in {distributePots(col.pots, 1, col.players, <<>>, evaluations) :
                            evaluations \in {evaluationsOf(activePlayers, g.hs.communityCards)}} :
             TRUE

\* the hand state and the players after the payout; the collected pots and
\* the evaluations are computed once
settled(g, col, activePlayers) ==
    IF Len(activePlayers) = 1
    THEN LET totalWinnings == SumSeq([k \in 1..Len(col.pots) |-> col.pots[k].amount])
         IN  [players |-> withPlayer(col.players,
                              [col.players[findIndex(col.players, activePlayers[1].id) + 1]
                                  EXCEPT !.chips = @ + totalWinnings]),
              winners |-> <<[playerId |-> activePlayers[1].id, hand |-> NullHand,
                             share |-> totalWinnings, potIndex |-> -1]>>]
    ELSE CHOOSE out \in {distributePots(col.pots, 1, col.players, <<>>, evaluations) :
                            evaluations \in {evaluationsOf(activePlayers, g.hs.communityCards)}} :
             TRUE

endHand(g) ==
    IF g.hs.phase = "none" THEN g
    ELSE
    LET activePlayers == filterAt(g.players, {i \in 1..Len(g.players) : ~g.players[i].hasFolded})
        g0 == stopTurnTimer(g)
    IN  CHOOSE g2 \in UNION
            {{[g0 EXCEPT !.players = out.players,
                         !.hs = [g.hs EXCEPT !.pots = col.pots, !.winners = out.winners,
                                             !.phase = "showdown"],
                         !.nextHand = @ + 1] :
                  out \in {settled(g, col, activePlayers)}} :
             col \in {collectBets(g.hs.pots, g.players)}} : TRUE

(***************************************************************************)
(* startHand (index.js)                                                    *)
(***************************************************************************)
\* players.forEach(player => player.hand = deck.dealCards(2)) from seat i on
RECURSIVE dealHands(_, _, _)
dealHands(ps, i, cards) ==
    IF i > Len(ps) THEN [players |-> ps, deck |-> cards]
    ELSE LET d == dealCards(cards, 2)
         IN  dealHands([ps EXCEPT ![i].hand = d[1]], i + 1, d[2])

startHand(g, shuffled) ==
    IF Len(g.players) < 2 THEN g
    ELSE
    LET fresh == [i \in 1..Len(g.players) |-> resetForNewHand(g.players[i])]
        dealt == dealHands(fresh, 1, shuffled)
        activePlayers == filterAt(dealt.players,
                                  {i \in 1..Len(dealt.players) : dealt.players[i].chips > 0})
        n == Len(activePlayers)
        g1 == [g EXCEPT !.players = dealt.players, !.deck = dealt.deck, !.hands = @ + 1]
    IN  IF n < 2 THEN g1
        ELSE
        LET dealerIndex == (g.roomDealer + 1) % n
            smallBlindIndex == (dealerIndex + 1) % n
            bigBlindIndex == (smallBlindIndex + 1) % n
            smallBlind == Min(SmallBlind, activePlayers[smallBlindIndex + 1].chips)
            bigBlind == Min(BigBlind, activePlayers[bigBlindIndex + 1].chips)
            ps1 == withPlayer(dealt.players, bet(activePlayers[smallBlindIndex + 1], smallBlind))
            ps2 == withPlayer(ps1, bet(ps1[findIndex(ps1, activePlayers[bigBlindIndex + 1].id) + 1],
                                       bigBlind))
            h == [newHandState EXCEPT !.dealerIndex = dealerIndex,
                                      !.smallBlindIndex = smallBlindIndex,
                                      !.bigBlindIndex = bigBlindIndex,
                                      !.currentBet = bigBlind,
                                      !.pot = smallBlind + bigBlind,
                                      !.currentPlayerIndex = (bigBlindIndex + 1) % n,
                                      !.blindsPosted = TRUE]
            g2 == [g1 EXCEPT !.players = ps2, !.hs = h, !.roomDealer = dealerIndex]
        IN  [startTurnTimer(g2) EXCEPT !.pba = @ + 1]

(***************************************************************************)
(* handlePlayerAction and the 'playerAction' socket handler (index.js)     *)
(***************************************************************************)
outcome(g, res) == [g |-> g, res |-> res]

\* the uncaught TypeError of reading a field of undefined ends the process
typeError(g) == outcome([g EXCEPT !.crashed = TRUE], "crashed")

\* the call branch (the bots' downgraded raises run a copy of it)
callBranch(g, player) ==
    LET callAmount == g.hs.currentBet - player.currentBet
        amount == IF callAmount > player.chips THEN player.chips ELSE callAmount
        betAmount == Min(amount, player.chips)
    IN  [g EXCEPT !.players = withPlayer(g.players, [bet(player, amount) EXCEPT !.hasActed = TRUE]),
                  !.hs.pot = @ + betAmount]

\* the loop passing over folded seats only
RECURSIVE skipFolded(_, _, _)
skipFolded(ps, nextIndexInFull, attempts) ==
    IF (ps[nextIndexInFull + 1].hasFolded)
       /\ attempts < Len(ps)
    THEN skipFolded(ps, (nextIndexInFull + 1) % Len(ps), attempts + 1)
    ELSE nextIndexInFull

\* while ((players[i].hasFolded || players[i].chips === 0) && attempts < players.length)
RECURSIVE skipInactive(_, _, _)
skipInactive(ps, nextIndexInFull, attempts) ==
    IF (ps[nextIndexInFull + 1].hasFolded \/ ps[nextIndexInFull + 1].chips = 0)
       /\ attempts < Len(ps)
    THEN skipInactive(ps, (nextIndexInFull + 1) % Len(ps), attempts + 1)
    ELSE nextIndexInFull

\* everything after the switch: the turn moves on, the timer is restarted and
\* processBettingRound is scheduled
moveToNextPlayer(g, currentPlayerId) ==
    LET activeAfterAction == activeOf(g.players)
        currentIndexInFull == findIndex(g.players, currentPlayerId)
        nextIndexInFull == skipInactive(g.players, (currentIndexInFull + 1) % Len(g.players), 0)
        nextPlayer == g.players[nextIndexInFull + 1]
        found == findIndex(activeAfterAction, nextPlayer.id)
        g1 == [g EXCEPT !.hs.currentPlayerIndex = IF found < 0 THEN 0 ELSE found]
    IN  [startTurnTimer(g1) EXCEPT !.pbr = @ + 1]

\* the raise branch with the minimum raise enforced on an all-in too
raiseBranchNoAllInExemption(g, player, activePlayers, amount) ==
    IF amount <= 0 THEN outcome(g, "rejected")
    ELSE
    LET minRaise == IF g.hs.phase = "preflop" THEN MinRaisePreflop ELSE MinRaiseLater
        raiseCallAmount == g.hs.currentBet - player.currentBet
        raiseAboveCall == amount - raiseCallAmount
        totalBet == player.currentBet + amount
        raised == bet(player, amount)
        others == [i \in 1..Len(g.players) |->
                     IF /\ g.players[i].id # player.id
                        /\ findIndex(activePlayers, g.players[i].id) >= 0
                     THEN [g.players[i] EXCEPT !.hasActed = FALSE] ELSE g.players[i]]
    IN  IF raiseAboveCall < minRaise
        THEN IF player.isBot
             THEN outcome(moveToNextPlayer(callBranch(g, player), player.id), "downgraded")
             ELSE outcome(g, "rejected")
        ELSE IF totalBet <= g.hs.currentBet
        THEN IF player.isBot
             THEN outcome(moveToNextPlayer(callBranch(g, player), player.id), "downgraded")
             ELSE outcome(g, "rejected")
        ELSE IF totalBet > player.chips + player.currentBet
        THEN outcome(g, "rejected")
        ELSE outcome(moveToNextPlayer(
                        [g EXCEPT !.players = withPlayer(others, [raised EXCEPT !.hasActed = TRUE]),
                                  !.hs.currentBet = raised.currentBet,
                                  !.hs.pot = @ + Min(amount, player.chips)],
                        player.id), "accepted")

\* the raise branch with the fallback of the bots given to every seat
raiseBranchDowngradeAll(g, player, activePlayers, amount) ==
    IF amount <= 0 THEN outcome(g, "rejected")
    ELSE
    LET minRaise == IF g.hs.phase = "preflop" THEN MinRaisePreflop ELSE MinRaiseLater
        raiseCallAmount == g.hs.currentBet - player.currentBet
        raiseAboveCall == amount - raiseCallAmount
        totalBet == player.currentBet + amount
        raised == bet(player, amount)
        others == [i \in 1..Len(g.players) |->
                     IF /\ g.players[i].id # player.id
                        /\ findIndex(activePlayers, g.players[i].id) >= 0
                     THEN [g.players[i] EXCEPT !.hasActed = FALSE] ELSE g.players[i]]
    IN  IF raiseAboveCall < minRaise /\ amount < player.chips
        THEN IF TRUE
             THEN outcome(moveToNextPlayer(callBranch(g, player), player.id), "downgraded")
             ELSE outcome(g, "rejected")
        ELSE IF totalBet <= g.hs.currentBet
        THEN IF TRUE
             THEN outcome(moveToNextPlayer(callBranch(g, player), player.id), "downgraded")
             ELSE outcome(g, "rejected")
        ELSE IF totalBet > player.chips + player.currentBet
        THEN outcome(g, "rejected")
        ELSE outcome(moveToNextPlayer(
                        [g EXCEPT !.players = withPlayer(others, [raised EXCEPT !.hasActed = TRUE]),
                                  !.hs.currentBet = raised.currentBet,
                                  !.hs.pot = @ + Min(amount, player.chips)],
                        player.id), "accepted")

\* the raise branch without the reset of the other seats' hasActed
raiseBranchNoReopen(g, player, activePlayers, amount) ==
    IF amount <= 0 THEN outcome(g, "rejected")
    ELSE
    LET minRaise == IF g.hs.phase = "preflop" THEN MinRaisePreflop ELSE MinRaiseLater
        raiseCallAmount == g.hs.currentBet - player.currentBet
        raiseAboveCall == amount - raiseCallAmount
        totalBet == player.currentBet + amount
        raised == bet(player, amount)
        others == [i \in 1..Len(g.players) |->
                     IF /\ g.players[i].id # player.id
                        /\ findIndex(activePlayers, g.players[i].id) >= 0
                     THEN g.players[i] ELSE g.players[i]]
    IN  IF raiseAboveCall < minRaise /\ amount < player.chips
        THEN IF player.isBot
             THEN outcome(moveToNextPlayer(callBranch(g, player), player.id), "downgraded")
             ELSE outcome(g, "rejected")
        ELSE IF totalBet <= g.hs.currentBet
        THEN IF player.isBot
             THEN outcome(moveToNextPlayer(callBranch(g, player), player.id), "downgraded")
             ELSE outcome(g, "rejected")
        ELSE IF totalBet > player.chips + player.currentBet
        THEN outcome(g, "rejected")
        ELSE outcome(moveToNextPlayer(
                        [g EXCEPT !.players = withPlayer(others, [raised EXCEPT !.hasActed = TRUE]),
                                  !.hs.currentBet = raised.currentBet,
                                  !.hs.pot = @ + Min(amount, player.chips)],
                        player.id), "accepted")

\* the raise branch
raiseBranch(g, player, activePlayers, amount) ==
    IF amount <= 0 THEN outcome(g, "rejected")
    ELSE
    LET minRaise == IF g.hs.phase = "preflop" THEN MinRaisePreflop ELSE MinRaiseLater
        raiseCallAmount == g.hs.currentBet - player.currentBet
        raiseAboveCall == amount - raiseCallAmount
        totalBet == player.currentBet + amount
        raised == bet(player, amount)
        others == [i \in 1..Len(g.players) |->
                     IF /\ g.players[i].id # player.id
                        /\ findIndex(activePlayers, g.players[i].id) >= 0
                     THEN [g.players[i] EXCEPT !.hasActed = FALSE] ELSE g.players[i]]
    IN  IF raiseAboveCall < minRaise /\ amount < player.chips
        THEN IF player.isBot
             THEN outcome(moveToNextPlayer(callBranch(g, player), player.id), "downgraded")
             ELSE outcome(g, "rejected")
        ELSE IF totalBet <= g.hs.currentBet
        THEN IF player.isBot
             THEN outcome(moveToNextPlayer(callBranch(g, player), player.id), "downgraded")
             ELSE outcome(g, "rejected")
        ELSE IF totalBet > player.chips + player.currentBet
        THEN outcome(g, "rejected")
        ELSE outcome(moveToNextPlayer(
                        [g EXCEPT !.players = withPlayer(others, [raised EXCEPT !.hasActed = TRUE]),
                                  !.hs.currentBet = raised.currentBet,
                                  !.hs.pot = @ + Min(amount, player.chips)],
                        player.id), "accepted")

\* handlePlayerAction without the checks of lines 294-300, which drop a
\* submission of a seat that is not on turn or has acted
handlePlayerActionAnySeat(g, playerId, a) ==
    IF g.hs.phase = "none" THEN outcome(g, "ignored")
    ELSE IF findIndex(g.players, playerId) < 0 THEN outcome(g, "ignored")
    ELSE
    LET player == g.players[findIndex(g.players, playerId) + 1]
        activePlayers == activeOf(g.players)
        cpi == g.hs.currentPlayerIndex
    IN  IF (cpi + 1) \notin DOMAIN activePlayers THEN typeError(g)
        ELSE
        LET g1 == stopTurnTimer(g)
        IN  CASE a.type = "fold" ->
                   outcome(moveToNextPlayer(
                              [g1 EXCEPT !.players = withPlayer(g1.players,
                                                        [fold(player) EXCEPT !.hasActed = TRUE])],
                              playerId), "accepted")
              [] a.type = "check" ->
                   IF player.currentBet < g1.hs.currentBet THEN outcome(g1, "rejected")
                   ELSE outcome(moveToNextPlayer(
                                   [g1 EXCEPT !.players = withPlayer(g1.players,
                                                             [player EXCEPT !.hasActed = TRUE])],
                                   playerId), "accepted")
              [] a.type = "call" ->
                   outcome(moveToNextPlayer(callBranch(g1, player), playerId), "accepted")
              [] a.type = "raise" -> raiseBranch(g1, player, activePlayers, a.amount)
              [] OTHER -> outcome(moveToNextPlayer(g1, playerId), "accepted")

handlePlayerAction(g, playerId, a) ==
    IF g.hs.phase = "none" THEN outcome(g, "ignored")
    ELSE IF findIndex(g.players, playerId) < 0 THEN outcome(g, "ignored")
    ELSE
    LET player == g.players[findIndex(g.players, playerId) + 1]
        activePlayers == activeOf(g.players)
        cpi == g.hs.currentPlayerIndex
    IN  IF (cpi + 1) \notin DOMAIN activePlayers THEN typeError(g)
        ELSE IF activePlayers[cpi + 1].id # playerId THEN outcome(g, "ignored")
        ELSE IF player.hasActed /\ ~player.isAllIn THEN outcome(g, "ignored")
        ELSE
        LET g1 == stopTurnTimer(g)
        IN  CASE a.type = "fold" ->
                   outcome(moveToNextPlayer(
                              [g1 EXCEPT !.players = withPlayer(g1.players,
                                                        [fold(player) EXCEPT !.hasActed = TRUE])],
                              playerId), "accepted")
              [] a.type = "check" ->
                   IF player.currentBet < g1.hs.currentBet THEN outcome(g1, "rejected")
                   ELSE outcome(moveToNextPlayer(
                                   [g1 EXCEPT !.players = withPlayer(g1.players,
                                                             [player EXCEPT !.hasActed = TRUE])],
                                   playerId), "accepted")
              [] a.type = "call" ->
                   outcome(moveToNextPlayer(callBranch(g1, player), playerId), "accepted")
              [] a.type = "raise" -> raiseBranch(g1, player, activePlayers, a.amount)
              [] OTHER -> outcome(moveToNextPlayer(g1, playerId), "accepted")

\* socket.on('playerAction'): the checks before handlePlayerAction is called
playerAction(g, socketId, a) ==
    IF g.hs.phase = "none" THEN outcome(g, "ignored")
    ELSE IF findIndex(g.players, socketId) < 0 THEN outcome(g, "ignored")
    ELSE
    LET player == g.players[findIndex(g.players, socketId) + 1]
        activePlayers == activeOf(g.players)
        cpi == g.hs.currentPlayerIndex
    IN  IF (cpi + 1) \notin DOMAIN activePlayers THEN typeError(g)
        ELSE IF activePlayers[cpi + 1].id # socketId THEN outcome(g, "ignored")
        ELSE IF player.hasActed /\ ~player.isAllIn THEN outcome(g, "ignored")
        ELSE IF a.type = "check" /\ player.currentBet < g.hs.currentBet
        THEN outcome(g, "ignored")
        ELSE IF a.type = "raise" /\ a.amount <= 0 THEN outcome(g, "ignored")
        ELSE IF a.type = "raise" /\ player.currentBet + a.amount <= g.hs.currentBet
        THEN outcome(g, "ignored")
        ELSE IF a.type = "raise" /\ player.currentBet + a.amount > player.chips + player.currentBet
        THEN outcome(g, "ignored")
        ELSE handlePlayerAction(g, socketId, a)

(***************************************************************************)
(* processBettingRound, processBotActions and the bots (index.js, bot.js)  *)
(***************************************************************************)
\* while (players[nextIndex].hasFolded || players[nextIndex].chips === 0)
RECURSIVE firstActiveFrom(_, _)
firstActiveFrom(ps, nextIndex) ==
    IF ps[nextIndex + 1].hasFolded \/ ps[nextIndex + 1].chips = 0
    THEN firstActiveFrom(ps, (nextIndex + 1) % Len(ps))
    ELSE nextIndex

\* the street transition with the turn card assigned to the board rather than
\* pushed onto it
nextStreetReplacingBoard(h, cards) ==
    CASE h.phase = "preflop" ->
           LET d == dealCards(cards, 3)
           IN  [hs |-> [h EXCEPT !.communityCards = d[1], !.phase = "flop"], deck |-> d[2]]
      [] h.phase = "flop" ->
           LET d == dealCards(cards, 1)
           IN  [hs |-> [h EXCEPT !.communityCards = d[1], !.phase = "turn"], deck |-> d[2]]
      [] h.phase = "turn" ->
           LET d == dealCards(cards, 1)
           IN  [hs |-> [h EXCEPT !.communityCards = @ \o d[1], !.phase = "river"], deck |-> d[2]]
      [] OTHER -> [hs |-> h, deck |-> cards]

\* the phase after a completed betting round and the cards dealt for it
nextStreet(h, cards) ==
    CASE h.phase = "preflop" ->
           LET d == dealCards(cards, 3)
           IN  [hs |-> [h EXCEPT !.communityCards = d[1], !.phase = "flop"], deck |-> d[2]]
      [] h.phase = "flop" ->
           LET d == dealCards(cards, 1)
           IN  [hs |-> [h EXCEPT !.communityCards = @ \o d[1], !.phase = "turn"], deck |-> d[2]]
      [] h.phase = "turn" ->
           LET d == dealCards(cards, 1)
           IN  [hs |-> [h EXCEPT !.communityCards = @ \o d[1], !.phase = "river"], deck |-> d[2]]
      [] OTHER -> [hs |-> h, deck |-> cards]

\* processBettingRound taking a round for complete once the bets are equal
processBettingRoundBetsOnly(g) ==
    IF g.hs.phase = "none" THEN g
    ELSE
    LET activePlayers == activeOf(g.players)
        allActed == TRUE
        allBetsEqual == \A i \in 1..Len(activePlayers) :
                            activePlayers[i].currentBet = g.hs.currentBet \/ activePlayers[i].isAllIn
    IN  IF Len(activePlayers) <= 1 THEN endHand(g)
        ELSE IF ~(allActed /\ allBetsEqual)
        THEN [startTurnTimer(g) EXCEPT !.pba = @ + 1]
        ELSE
        LET col == collectBets(g.hs.pots, g.players)
            gc == [g EXCEPT !.players = col.players, !.hs.pots = col.pots]
        IN  IF g.hs.phase = "river" THEN endHand(gc)
            ELSE
            LET st == nextStreet(gc.hs, gc.deck)
                ps == [i \in 1..Len(gc.players) |->
                         IF findIndex(activePlayers, gc.players[i].id) >= 0
                         THEN resetForNewBettingRound(gc.players[i]) ELSE gc.players[i]]
                active2 == activeOf(ps)
            IN  IF (g.hs.dealerIndex + 1) \notin DOMAIN activePlayers
                THEN [g EXCEPT !.players = ps, !.deck = st.deck, !.crashed = TRUE,
                               !.hs = [st.hs EXCEPT !.currentBet = 0]]
                ELSE
                LET dealerIndexInAll == findIndex(ps, activePlayers[g.hs.dealerIndex + 1].id)
                    nextIndex == firstActiveFrom(ps, (dealerIndexInAll + 1) % Len(ps))
                IN  [g EXCEPT !.players = ps, !.deck = st.deck,
                              !.hs = [st.hs EXCEPT !.currentBet = 0,
                                                   !.currentPlayerIndex =
                                                       findIndex(active2, ps[nextIndex + 1].id)],
                              !.pba = @ + 1]

processBettingRound(g) ==
    IF g.hs.phase = "none" THEN g
    ELSE
    LET activePlayers == activeOf(g.players)
        allActed == \A i \in 1..Len(activePlayers) :
                        activePlayers[i].hasActed \/ activePlayers[i].isAllIn
        allBetsEqual == \A i \in 1..Len(activePlayers) :
                            activePlayers[i].currentBet = g.hs.currentBet \/ activePlayers[i].isAllIn
    IN  IF Len(activePlayers) <= 1 THEN endHand(g)
        ELSE IF ~(allActed /\ allBetsEqual)
        THEN [startTurnTimer(g) EXCEPT !.pba = @ + 1]
        ELSE
        LET col == collectBets(g.hs.pots, g.players)
            gc == [g EXCEPT !.players = col.players, !.hs.pots = col.pots]
        IN  IF g.hs.phase = "river" THEN endHand(gc)
            ELSE
            LET st == nextStreet(gc.hs, gc.deck)
                ps == [i \in 1..Len(gc.players) |->
                         IF findIndex(activePlayers, gc.players[i].id) >= 0
                         THEN resetForNewBettingRound(gc.players[i]) ELSE gc.players[i]]
                active2 == activeOf(ps)
            IN  IF (g.hs.dealerIndex + 1) \notin DOMAIN activePlayers
                THEN [g EXCEPT !.players = ps, !.deck = st.deck, !.crashed = TRUE,
                               !.hs = [st.hs EXCEPT !.currentBet = 0]]
                ELSE
                LET dealerIndexInAll == findIndex(ps, activePlayers[g.hs.dealerIndex + 1].id)
                    nextIndex == firstActiveFrom(ps, (dealerIndexInAll + 1) % Len(ps))
                IN  [g EXCEPT !.players = ps, !.deck = st.deck,
                              !.hs = [st.hs EXCEPT !.currentBet = 0,
                                                   !.currentPlayerIndex =
                                                       findIndex(active2, ps[nextIndex + 1].id)],
                              !.pba = @ + 1]

\* processBotActions: the bot whose turn it is starts thinking
processBotActions(g) ==
    IF g.hs.phase = "none" THEN g
    ELSE
    LET activePlayers == activeOf(g.players)
        cpi == g.hs.currentPlayerIndex
    IN  IF Len(activePlayers) <= 1 THEN g
        ELSE IF (cpi + 1) \notin DOMAIN activePlayers THEN g
        ELSE IF /\ activePlayers[cpi + 1].isBot
                /\ ~activePlayers[cpi + 1].hasActed
                /\ ~activePlayers[cpi + 1].isAllIn
        THEN [g EXCEPT !.botThink[activePlayers[cpi + 1].id] = @ + 1]
        ELSE g

\* Bot.makeDecision: what the policy can return for this bot in this hand
\* state.  The hand strength, the personality and the stack ratio only select
\* among these; a raise never asks for more than half of the stack
\* (Math.min(..., chips * 0.5) at most) and asks for 0 only when
\* Math.floor(chips * 0.15) is 0.  "null" is the null decision.
makeDecision(bot, h) ==
    IF bot.hasFolded \/ bot.isAllIn \/ bot.hasActed THEN {action("null", 0)}
    ELSE
    LET callAmount == h.currentBet - bot.currentBet
        canCheck == bot.currentBet >= h.currentBet
        raises == {action("raise", a) :
                      a \in {x \in RaiseAmounts : 2 * x <= bot.chips /\ (x > 0 \/ bot.chips < 7)}}
    IN  IF canCheck
        THEN {action("check", 0)} \cup raises
                 \cup (IF callAmount # 0 THEN {action("fold", 0)} ELSE {})
        ELSE {action("fold", 0), action("call", 0)} \cup raises

\* the callback a thinking bot runs after its delay
botTurn(g, botId, decision) ==
    LET g0 == [g EXCEPT !.botThink[botId] = @ - 1]
        activePlayersCheck == activeOf(g.players)
        cpi == g.hs.currentPlayerIndex
    IN  IF g.hs.phase = "none" THEN outcome(g0, "ignored")
        ELSE IF (cpi + 1) \notin DOMAIN activePlayersCheck THEN outcome(g0, "ignored")
        ELSE IF ~(activePlayersCheck[cpi + 1].isBot /\ activePlayersCheck[cpi + 1].id = botId)
        THEN outcome(g0, "ignored")
        ELSE IF decision.type = "null"
        THEN handlePlayerAction(g0, botId, action("fold", 0))
        ELSE handlePlayerAction(g0, botId, decision)

\* the callback of the turn timer: check if possible, otherwise fold
timerAction(g) ==
    LET currentPlayer == g.players[findIndex(g.players, g.turnTimer) + 1]
        canCheck == currentPlayer.currentBet >= g.hs.currentBet
    IN  action(IF canCheck THEN "check" ELSE "fold", 0)

(***************************************************************************)
(* Evaluator harness: the inputs the evaluator is applied to               *)
(***************************************************************************)
HighRanks == 5      \* how many of the top ranks (A, K, Q, ...) the paired inputs use
WheelTop == 5       \* the low ranks 2..5 of the wheel are always used

EvalValues == {v \in 2..14 : v <= WheelTop \/ v > 14 - HighRanks}
rankOfValue(v) == CHOOSE r \in RankSet : rankOrder[r] = v

\* five rank values in descending order, at most four of them equal
fiveTuples(V) ==
    {t \in [1..5 -> V] : (\A i \in 1..4 : t[i] >= t[i + 1]) /\ t[1] # t[5]}

\* suit patterns: one suit; four of one suit and one other; suits in rotation
SuitPatterns == {"flush", "near", "mixed"}
patternSuit(pat, i) ==
    CASE pat = "flush" -> suits[1]
      [] pat = "near" -> IF i = 5 THEN suits[2] ELSE suits[1]
      [] pat = "mixed" -> suits[((i - 1) % 4) + 1]

handOf(t, pat) == [i \in 1..5 |-> Card(rankOfValue(t[i]), patternSuit(pat, i))]

fiveHands(V) ==
    {handOf(th[1], th[2]) :
        th \in {x \in fiveTuples(V) \X SuitPatterns :
                   x[2] = "mixed" \/ \A i \in 1..4 : x[1][i] # x[1][i + 1]}}

FiveHands == fiveHands(EvalValues)
AllFiveHands == fiveHands(2..14)

\* the best and the worst hand of each category
CategorySamples ==
    {handOf(<<14, 13, 12, 11, 10>>, "flush"), handOf(<<14, 5, 4, 3, 2>>, "flush"),
     handOf(<<14, 14, 14, 14, 13>>, "mixed"), handOf(<<3, 2, 2, 2, 2>>, "mixed"),
     handOf(<<14, 14, 14, 13, 13>>, "mixed"), handOf(<<3, 3, 2, 2, 2>>, "mixed"),
     handOf(<<14, 13, 12, 11, 9>>, "flush"), handOf(<<7, 5, 4, 3, 2>>, "flush"),
     handOf(<<14, 13, 12, 11, 10>>, "mixed"), handOf(<<14, 5, 4, 3, 2>>, "mixed"),
     handOf(<<14, 14, 14, 13, 12>>, "mixed"), handOf(<<4, 3, 2, 2, 2>>, "mixed"),
     handOf(<<14, 14, 13, 13, 12>>, "mixed"), handOf(<<4, 3, 3, 2, 2>>, "mixed"),
     handOf(<<14, 14, 13, 12, 11>>, "mixed"), handOf(<<5, 4, 3, 2, 2>>, "mixed"),
     handOf(<<14, 13, 12, 11, 9>>, "mixed"), handOf(<<7, 5, 4, 3, 2>>, "mixed")}

\* a total order on the inputs, so that each unordered pair is drawn once
handCode(h) ==
    LET v == [i \in 1..5 |-> rankOrder[h[i].rank]]
    IN  ((((v[1] * 15 + v[2]) * 15 + v[3]) * 15 + v[4]) * 15 + v[5]) * 4
      + (IF h[1].suit # h[2].suit THEN 2 ELSE IF h[1].suit # h[5].suit THEN 1 ELSE 0)

royalCards(s) == <<Card("10", s), Card("J", s), Card("Q", s), Card("K", s), Card("A", s)>>
cardCode(c) ==
    rankOrder[c.rank] * 4 + (CHOOSE i \in 1..4 : suits[i] = c.suit)

\* seven cards: two hole cards followed by the ten to ace of one suit
SevenInputs ==
    {<<x[2], x[3]>> \o royalCards(x[1]) :
        x \in {y \in SuitSet \X AllCards \X AllCards :
                  /\ cardCode(y[2]) < cardCode(y[3])
                  /\ \A i \in 1..5 : royalCards(y[1])[i] \notin {y[2], y[3]}}}

\* no room exists: the state of the game variables while only the evaluator runs
GameIdle ==
    /\ players = <<>>
    /\ hs = [phase |-> "none"]
    /\ deck = <<>>
    /\ roomDealer = 0
    /\ turnTimer = 0
    /\ pbrPending = 0
    /\ pbaPending = 0
    /\ botThink = <<>>
    /\ nextHand = 0
    /\ handsStarted = 0
    /\ crashed = FALSE
    /\ lateActions = 0
    /\ last = [op |-> "none"]

(***************************************************************************)
(* The room as a state machine: the socket events and the timer callbacks  *)
(***************************************************************************)
install(g) ==
    /\ players' = g.players
    /\ hs' = g.hs
    /\ deck' = g.deck
    /\ roomDealer' = g.roomDealer
    /\ turnTimer' = g.turnTimer
    /\ pbrPending' = g.pbr
    /\ pbaPending' = g.pba
    /\ botThink' = g.botThink
    /\ nextHand' = g.nextHand
    /\ handsStarted' = g.hands
    /\ crashed' = g.crashed

did(op, seat, a, res) ==
    last' = [op |-> op, seat |-> seat, type |-> a.type, amount |-> a.amount, res |-> res]

noAction == action("", 0)

\* the first hand is explored in full; once it is settled the run handles
\* at most MaxLateActions further actions
late == hs.phase = "showdown" \/ handsStarted > 1
withinBudget == ~late \/ lateActions < MaxLateActions
handled(res) ==
    lateActions' = IF late /\ res # "ignored" THEN lateActions + 1 ELSE lateActions
thinking == \E i \in SeatIds : botThink[i] > 0

\* the setTimeout callbacks that are pending, the turn timer aside; only a
\* client's action adds one to a room that has some pending already.  The
\* decision callback of a bot that has acted in the meantime is not counted:
\* a client need not wait for it.
pendingCallbacks ==
    pbrPending + pbaPending + nextHand
        + SumSeq([i \in SeatIds |-> IF players[i].hasActed THEN 0 ELSE botThink[i]])
HumanSeats == {i \in SeatIds : ~SeatIsBot[i]}

\* what a client can send: the four action types, a raise with one of the
\* sampled amounts or with the whole stack
clientActions(seat) ==
    {action("fold", 0), action("check", 0), action("call", 0)}
        \cup {action("raise", a) : a \in RaiseAmounts \cup {players[seat].chips}}

Init ==
    /\ players \in {[i \in SeatIds |-> newPlayer(i, st[i], SeatIsBot[i])] : st \in StackChoices}
    /\ hs = NoHand
    /\ deck = <<>>
    /\ roomDealer = 0
    /\ turnTimer = 0
    /\ pbrPending = 0
    /\ pbaPending = 0
    /\ botThink = [i \in SeatIds |-> 0]
    /\ nextHand = 0
    /\ handsStarted = 0
    /\ crashed = FALSE
    /\ lateActions = 0
    /\ last = [op |-> "none"]
    /\ evalIn = <<>>
    /\ evalOut = <<>>

\* socket.on('startGame'): the first hand
StartGame ==
    /\ ~crashed /\ hs.phase = "none" /\ handsStarted = 0
    /\ \E shuffled \in ShuffledDecks : install(startHand(Room, shuffled))
    /\ did("startHand", 0, noAction, "started")
    /\ UNCHANGED lateActions
    /\ UNCHANGED evalVars

\* the callback endHand schedules: the next hand
NextHand ==
    /\ ~crashed /\ nextHand > 0 /\ handsStarted < MaxHands
    /\ \E shuffled \in LaterDecks :
           install(startHand([Room EXCEPT !.nextHand = @ - 1], shuffled))
    /\ did("startHand", 0, noAction, "started")
    /\ UNCHANGED lateActions
    /\ UNCHANGED evalVars

\* socket.on('playerAction') of a connected client
Submit ==
    /\ ~crashed /\ pendingCallbacks < MaxPending /\ withinBudget
    /\ \E seat \in HumanSeats : \E a \in clientActions(seat) :
           \E r \in {playerAction(Room, seat, a)} :
               IF r.res = "ignored" THEN UNCHANGED gameVars
               ELSE install(r.g) /\ did("playerAction", seat, a, r.res) /\ handled(r.res)
    /\ UNCHANGED evalVars

\* the turn timer fires; it is far longer than every other delay, so it
\* fires only when no other callback is pending
TimerExpire ==
    /\ ~crashed /\ turnTimer # 0
    /\ pbrPending = 0 /\ pbaPending = 0 /\ ~thinking /\ nextHand = 0 /\ withinBudget
    /\ \E r \in {handlePlayerAction([Room EXCEPT !.turnTimer = 0], turnTimer, timerAction(Room))} :
           install(r.g) /\ did("timeout", turnTimer, timerAction(Room), r.res) /\ handled(r.res)
    /\ UNCHANGED evalVars

\* the callback handlePlayerAction schedules
BettingRound ==
    /\ ~crashed /\ pbrPending > 0
    /\ \E g \in {processBettingRound([Room EXCEPT !.pbr = @ - 1])} :
           install(g) /\ did("processBettingRound", 0, noAction,
                             IF g.crashed THEN "crashed" ELSE g.hs.phase)
    /\ UNCHANGED lateActions
    /\ UNCHANGED evalVars

\* the callback startHand and processBettingRound schedule
BotActions ==
    /\ ~crashed /\ pbaPending > 0
    /\ install(processBotActions([Room EXCEPT !.pba = @ - 1]))
    /\ did("processBotActions", 0, noAction, "done")
    /\ UNCHANGED lateActions
    /\ UNCHANGED evalVars

\* the callback of a thinking bot
BotTurn ==
    /\ ~crashed /\ withinBudget
    /\ \E botId \in SeatIds :
           /\ botThink[botId] > 0
           /\ \E decision \in makeDecision(players[botId], hs) :
                  \E r \in {botTurn(Room, botId, decision)} :
                      install(r.g) /\ did("botTurn", botId, decision, r.res) /\ handled(r.res)
    /\ UNCHANGED evalVars

Next ==
    \/ StartGame
    \/ NextHand
    \/ Submit
    \/ TimerExpire
    \/ BettingRound
    \/ BotActions
    \/ BotTurn

Spec == Init /\ [][Next]_vars

(***************************************************************************)
(* The rules of poker, stated independently of the evaluator               *)
(***************************************************************************)
valuesOf(h) == {rankOrder[h[i].rank] : i \in 1..Len(h)}
multOf(h, v) == Cardinality({i \in 1..Len(h) : rankOrder[h[i].rank] = v})
withMult(h, n) == {v \in valuesOf(h) : multOf(h, v) = n}
ruleFlush(h) == \A i \in 1..Len(h) : h[i].suit = h[1].suit
ruleWheel(h) == valuesOf(h) = {14, 5, 4, 3, 2}
ruleRun(h) ==
    /\ Cardinality(valuesOf(h)) = 5
    /\ \E top \in valuesOf(h) : valuesOf(h) = (top - 4)..top
ruleStraight(h) == ruleRun(h) \/ ruleWheel(h)
ruleStraightHigh(h) ==
    IF ruleWheel(h) THEN 5 ELSE CHOOSE v \in valuesOf(h) : \A w \in valuesOf(h) : w <= v

\* 9 straight flush, 8 four of a kind, 7 full house, 6 flush, 5 straight,
\* 4 three of a kind, 3 two pair, 2 one pair, 1 high card
ruleCategory(h) ==
    IF ruleFlush(h) /\ ruleStraight(h) THEN 9
    ELSE IF withMult(h, 4) # {} THEN 8
    ELSE IF withMult(h, 3) # {} /\ withMult(h, 2) # {} THEN 7
    ELSE IF ruleFlush(h) THEN 6
    ELSE IF ruleStraight(h) THEN 5
    ELSE IF withMult(h, 3) # {} THEN 4
    ELSE IF Cardinality(withMult(h, 2)) = 2 THEN 3
    ELSE IF withMult(h, 2) # {} THEN 2
    ELSE 1

\* the ranks that decide between two hands of one category, most significant first:
\* the ranks of the combination, then the kickers in descending order
ruleKey(h) ==
    IF ruleStraight(h) THEN <<ruleStraightHigh(h)>>
    ELSE SetToDesc(withMult(h, 4)) \o SetToDesc(withMult(h, 3))
           \o SetToDesc(withMult(h, 2)) \o SetToDesc(withMult(h, 1))

ruleBeats(k1, k2) ==
    \E i \in 1..Len(k1) : k1[i] > k2[i] /\ \A j \in 1..(i - 1) : k1[j] = k2[j]

\* one five-card hand (any ranks) is scored by evaluateFiveCards
InitFive ==
    /\ GameIdle
    /\ evalIn \in {<<h>> : h \in AllFiveHands}
    /\ evalOut = <<>>

ScoreFive ==
    /\ Len(evalIn) = 1
    /\ evalOut = <<>>
    /\ evalOut' = <<evaluateFiveCards(evalIn[1])>>
    /\ UNCHANGED <<evalIn, players, hs, deck, roomDealer, turnTimer, pbrPending,
                   pbaPending, botThink, nextHand, handsStarted, crashed, lateActions,
                   last>>

NextFive == ScoreFive
SpecFive == InitFive /\ [][NextFive]_vars

\* two five-card hands are scored by evaluateFiveCards: each unordered pair of
\* hands of one category, and each hand against the samples of every category
InitPair ==
    /\ GameIdle
    /\ evalIn \in {<<h>> : h \in FiveHands}
    /\ evalOut = <<>>

\* the paired inputs, with category and order code, by category
CodedHands == {<<ruleCategory(h), handCode(h), h>> : h \in FiveHands}

ScorePair ==
    /\ Len(evalIn) = 1
    /\ evalOut = <<>>
    /\ \E c1 \in {ruleCategory(evalIn[1])}, k1 \in {handCode(evalIn[1])},
          e1 \in {evaluateFiveCards(evalIn[1])}, x2 \in CodedHands :
          /\ x2[1] = c1
          /\ k1 <= x2[2]
          /\ evalIn' = <<evalIn[1], x2[3]>>
          /\ evalOut' = <<e1, evaluateFiveCards(x2[3])>>
    /\ UNCHANGED gameVars

ScoreAcross ==
    /\ Len(evalIn) = 1
    /\ evalOut = <<>>
    /\ \E e1 \in {evaluateFiveCards(evalIn[1])}, h2 \in CategorySamples :
          /\ evalIn' = <<evalIn[1], h2>>
          /\ evalOut' = <<e1, evaluateFiveCards(h2)>>
    /\ UNCHANGED gameVars

NextPair == ScorePair \/ ScoreAcross
SpecPair == InitPair /\ [][NextPair]_vars

\* a seven-card set is scored by evaluateHand
InitSeven ==
    /\ GameIdle
    /\ evalIn \in {<<c>> : c \in SevenInputs}
    /\ evalOut = <<>>

ScoreSeven ==
    /\ Len(evalIn) = 1
    /\ evalOut = <<>>
    /\ evalOut' = <<evaluateHand(evalIn[1])>>
    /\ UNCHANGED <<evalIn, players, hs, deck, roomDealer, turnTimer, pbrPending,
                   pbaPending, botThink, nextHand, handsStarted, crashed, lateActions,
                   last>>

NextSeven == ScoreSeven
SpecSeven == InitSeven /\ [][NextSeven]_vars

pairScored == Len(evalIn) = 2 /\ Len(evalOut) = 2

(***************************************************************************)
(* C6: whenever two five-card hands have been scored and the poker         *)
(* category of one is higher than the category of the other, the hand of   *)
(* the higher category has the strictly greater score.                     *)
(***************************************************************************)
C6_CategoryDominance ==
    pairScored =>
        /\ ruleCategory(evalIn[1]) > ruleCategory(evalIn[2])
              => evalOut[1].score > evalOut[2].score
        /\ ruleCategory(evalIn[2]) > ruleCategory(evalIn[1])
              => evalOut[2].score > evalOut[1].score

(***************************************************************************)
(* C8: a scored five-card hand of ranks A,2,3,4,5 that is not of one suit  *)
(* is a Straight with score 4000000 + 5; every other scored straight that  *)
(* is not of one suit scores 4000000 + its top rank, which is 6 or more,   *)
(* so the wheel is below it; and a hand is scored as a straight (or        *)
(* straight flush) only when its ranks are five consecutive values or      *)
(* exactly A,2,3,4,5, so the ace is low in no other pattern.               *)
(***************************************************************************)
fiveScored == Len(evalIn) = 1 /\ Len(evalOut) = 1 /\ Len(evalIn[1]) = 5
straightNames == {"Straight", "Straight Flush", "Royal Flush"}
C8_Wheel ==
    fiveScored =>
        LET h == evalIn[1]
            e == evalOut[1]
        IN  /\ (ruleWheel(h) /\ ~ruleFlush(h))
                  => (e.rank = "Straight" /\ e.score = 4000000 + WheelTop)
            /\ (ruleRun(h) /\ ~ruleFlush(h))
                  => /\ e.rank = "Straight"
                     /\ e.score = 4000000 + ruleStraightHigh(h)
                     /\ e.score > 4000000 + WheelTop
            /\ (e.rank \in straightNames) = ruleStraight(h)

\* an off-suit wheel has been scored as a five-high straight
C8_Witness ==
    /\ fiveScored
    /\ ruleWheel(evalIn[1]) /\ ~ruleFlush(evalIn[1])
    /\ evalOut[1].rank = "Straight"
    /\ evalOut[1].score = 4000005

(***************************************************************************)
(* C9: whenever two scored five-card hands have the same poker category,   *)
(* the first has the greater score exactly when it wins the comparison of  *)
(* the combination ranks followed by the kickers in descending order, the  *)
(* second likewise, and the scores are equal exactly when all these ranks  *)
(* are equal.                                                              *)
(***************************************************************************)
C9_KickerOrder ==
    (pairScored /\ ruleCategory(evalIn[1]) = ruleCategory(evalIn[2])) =>
        LET k1 == ruleKey(evalIn[1])
            k2 == ruleKey(evalIn[2])
        IN  /\ (evalOut[1].score > evalOut[2].score) = ruleBeats(k1, k2)
            /\ (evalOut[2].score > evalOut[1].score) = ruleBeats(k2, k1)
            /\ (evalOut[1].score = evalOut[2].score) = (k1 = k2)

\* two scored one-pair hands that differ in the last kicker only
C9_Witness ==
    /\ pairScored
    /\ ruleCategory(evalIn[1]) = 2 /\ ruleCategory(evalIn[2]) = 2
    /\ LET k1 == ruleKey(evalIn[1])
           k2 == ruleKey(evalIn[2])
       IN  /\ \A j \in 1..3 : k1[j] = k2[j]
           /\ k1[4] # k2[4]
    /\ evalOut[1].score # evalOut[2].score

(***************************************************************************)
(* C7: whenever evaluateHand has scored seven cards that contain the ten,  *)
(* jack, queen, king and ace of one suit, the result is the royal flush    *)
(* with score 9000000 + 14.                                                *)
(***************************************************************************)
hasRoyal(cards) ==
    \E s \in SuitSet : \A i \in 1..5 : \E j \in 1..Len(cards) : cards[j] = royalCards(s)[i]
C7_RoyalIsBest ==
    (Len(evalIn) = 1 /\ Len(evalOut) = 1 /\ Len(evalIn[1]) = 7 /\ hasRoyal(evalIn[1])) =>
        /\ evalOut[1].rank = "Royal Flush"
        /\ evalOut[1].score = 9000000 + 14

(***************************************************************************)
(* Pot manager harness: collectBets on a fresh PotManager                  *)
(***************************************************************************)
PotBetValues == {0, 100, 200, 500, 1000}
PotSeats == {1, 2, 3, 4}

InitPots ==
    /\ \E b \in [PotSeats -> PotBetValues], a \in [PotSeats -> BOOLEAN] :
          players = [i \in 1..Cardinality(PotSeats) |->
                       [newPlayer(i, IF a[i] THEN 0 ELSE 1000, FALSE)
                           EXCEPT !.currentBet = b[i], !.isAllIn = a[i]]]
    /\ hs = [phase |-> "pots", pots |-> newPotManager]
    /\ deck = <<>>
    /\ roomDealer = 0
    /\ turnTimer = 0
    /\ pbrPending = 0
    /\ pbaPending = 0
    /\ botThink = <<>>
    /\ nextHand = 0
    /\ handsStarted = 0
    /\ crashed = FALSE
    /\ lateActions = 0
    /\ last = [op |-> "none"]
    /\ evalIn = <<players>>
    /\ evalOut = <<>>

CollectFresh ==
    /\ hs.phase = "pots"
    /\ last.op = "none"
    /\ LET r == collectBets(hs.pots, players)
       IN  /\ players' = r.players
           /\ hs' = [hs EXCEPT !.pots = r.pots]
    /\ last' = [op |-> "collectBets"]
    /\ UNCHANGED <<deck, roomDealer, turnTimer, pbrPending, pbaPending, botThink,
                   nextHand, handsStarted, crashed, lateActions, evalIn, evalOut>>

NextPots == CollectFresh
SpecPots == InitPots /\ [][NextPots]_vars

(***************************************************************************)
(* C3: after collectBets has run on a fresh PotManager, if the positive    *)
(* bets took the values t1 < ... < tm and every player with a positive bet *)
(* below tm was all-in, there are exactly m pots, pot k holds              *)
(* (tk - t(k-1)) * #{players with bet >= tk} and its contributors are      *)
(* exactly the players with bet >= tk.                                     *)
(***************************************************************************)
betsIn == [i \in 1..Len(evalIn[1]) |-> evalIn[1][i].currentBet]
thresholds == SetToDesc({betsIn[i] : i \in 1..Len(betsIn)} \ {0})
threshold(k) == IF k = 0 THEN 0 ELSE thresholds[Len(thresholds) - k + 1]
atLeast(t) == {i \in 1..Len(betsIn) : betsIn[i] >= t}
ladderInput ==
    /\ Len(thresholds) >= 1
    /\ \A i \in 1..Len(betsIn) :
          (betsIn[i] > 0 /\ betsIn[i] < thresholds[1]) => evalIn[1][i].isAllIn
C3_SidePotLadder ==
    (last.op = "collectBets" /\ ladderInput) =>
        /\ Len(hs.pots) = Len(thresholds)
        /\ \A k \in 1..Len(thresholds) :
              /\ hs.pots[k].amount
                    = (threshold(k) - threshold(k - 1)) * Cardinality(atLeast(threshold(k)))
              /\ hs.pots[k].contributors = {evalIn[1][i].id : i \in atLeast(threshold(k))}

\* the four-seat example: bets 1000/200/500/1000 collected into 800/900/1000
C3_Witness ==
    /\ last.op = "collectBets"
    /\ ladderInput
    /\ betsIn = <<1000, 200, 500, 1000>>
    /\ Len(hs.pots) = 3
    /\ hs.pots[1].amount = 800 /\ hs.pots[2].amount = 900 /\ hs.pots[3].amount = 1000
    /\ hs.pots[3].contributors = {1, 4}

(***************************************************************************)
(* Chip accounting of the room                                             *)
(***************************************************************************)
potsOf(h) == IF h.phase = "none" THEN <<>> ELSE h.pots
chipsIn(ps) == SumSeq([i \in 1..Len(ps) |-> ps[i].chips])
betsOf(ps) == SumSeq([i \in 1..Len(ps) |-> ps[i].currentBet])
potsIn(h) == SumSeq([k \in 1..Len(potsOf(h)) |-> potsOf(h)[k].amount])
total(ps, h) == chipsIn(ps) + betsOf(ps) + potsIn(h)

BettingPhases == {"preflop", "flop", "turn", "river"}
actionOps == {"playerAction", "timeout", "botTurn"}

(***************************************************************************)
(* C1: within a hand, chips + current bets + pots stays what it was when   *)
(* the hand started: no step other than the start of a hand (a submitted   *)
(* action, a timer expiry, a bot decision, a street transition, the        *)
(* settlement) changes the sum.                                            *)
(***************************************************************************)
C1_Conservation ==
    [][last'.op # "startHand" => total(players', hs') = total(players, hs)]_vars

(***************************************************************************)
(* C2: between the blinds and the settlement, no handled action (fold,     *)
(* check, call, raise, a bot raise downgraded to a call, a rejected        *)
(* action) and no street transition changes chips + current bets + pots.   *)
(***************************************************************************)
bettingStep ==
    /\ hs.phase \in BettingPhases
    /\ hs'.phase \in BettingPhases
    /\ last'.op \in actionOps \cup {"processBettingRound"}
C2_BettingConserves ==
    [][bettingStep => total(players', hs') = total(players, hs)]_vars

\* the first hand's flop has just been dealt: the blinds and the calls or
\* raises made on top of them have left the stacks and are in the pots
C2_Witness ==
    /\ last.op = "processBettingRound" /\ last.res = "flop"
    /\ hs.phase = "flop"
    /\ potsIn(hs) > SmallBlind + BigBlind
    /\ betsOf(players) = 0
    /\ handsStarted = 1

(***************************************************************************)
(* C4: chips wagered on a later street never go into a pot that has an     *)
(* earlier all-in player as contributor: while a hand is in a betting      *)
(* phase, a pot with a contributor who is all-in with no bet left to       *)
(* collect does not grow.                                                  *)
(***************************************************************************)
cappedPots ==
    {k \in 1..Len(potsOf(hs)) :
        \E i \in 1..Len(players) :
            /\ players[i].id \in hs.pots[k].contributors
            /\ players[i].isAllIn /\ players[i].chips = 0 /\ players[i].currentBet = 0
            /\ ~players[i].hasFolded}
C4_AllInCapping ==
    [][(hs.phase \in BettingPhases /\ hs'.phase \in BettingPhases
            /\ handsStarted' = handsStarted)
          => \A k \in cappedPots : hs'.pots[k].amount = hs.pots[k].amount]_vars

(***************************************************************************)
(* C5: when the settlement runs again on a hand that was just settled,     *)
(* with nothing handled in between, no player's chips change.              *)
(***************************************************************************)
C5_IdempotentSettlement ==
    [][(/\ hs.phase = "showdown"
        /\ last.op = "processBettingRound" /\ last.res = "showdown"
        /\ last'.op = "processBettingRound"
        /\ nextHand' = nextHand + 1)
          => \A i \in 1..Len(players) : players'[i].chips = players[i].chips]_vars

(***************************************************************************)
(* C10: whenever the settlement evaluated hands, every evaluated card set  *)
(* had at least 5 cards: no winner's hand is the "Invalid" evaluation.     *)
(***************************************************************************)
C10_FiveCardsAtSettlement ==
    hs.phase = "showdown" =>
        \A j \in 1..Len(hs.winners) :
            /\ hs.winners[j].hand.rank # "Invalid"
            /\ hs.winners[j].hand # NullHand => Len(hs.communityCards) + 2 >= 5

(***************************************************************************)
(* The betting rules, stated independently of the handlers                 *)
(***************************************************************************)
\* the seat the turn is on: the seat at currentPlayerIndex among the
\* non-folded seats with chips, 0 when there is none
currentActor ==
    IF hs.phase = "none" \/ (hs.currentPlayerIndex + 1) \notin DOMAIN activeOf(players)
    THEN 0
    ELSE activeOf(players)[hs.currentPlayerIndex + 1].id

\* it is this seat's turn to act on a street
onTurn(seat) ==
    /\ hs.phase \in BettingPhases
    /\ currentActor = seat
    /\ ~(players[seat].hasActed /\ ~players[seat].isAllIn)

ruleMinRaise(h) == IF h.phase = "preflop" THEN 20 ELSE 10
ruleLegalRaise(p, h, amount) ==
    /\ amount > 0
    /\ amount <= p.chips
    /\ p.currentBet + amount > h.currentBet
    /\ \/ amount - (h.currentBet - p.currentBet) >= ruleMinRaise(h)
       \/ amount = p.chips

\* the chips, bets and flags of the table
tableOf(g) ==
    [seats |-> [i \in 1..Len(g.players) |->
                   [chips |-> g.players[i].chips, currentBet |-> g.players[i].currentBet,
                    hasFolded |-> g.players[i].hasFolded, isAllIn |-> g.players[i].isAllIn,
                    hasActed |-> g.players[i].hasActed]],
     currentBet |-> g.hs.currentBet, pot |-> g.hs.pot]

\* the raise was applied: the amount left the stack for the seat's bet, which
\* is the street's bet now
raiseApplied(g, seat, amount) ==
    /\ g.players[seat].chips = players[seat].chips - amount
    /\ g.players[seat].currentBet = players[seat].currentBet + amount
    /\ g.hs.currentBet = g.players[seat].currentBet
    /\ g.hs.pot = hs.pot + amount

\* the amounts a raise is probed with: every multiple of 10 up to the seat's
\* chips, 1, and the amounts next to its chips
probeAmounts(seat) ==
    {amount \in 0..players[seat].chips : amount % 10 = 0}
        \cup {1, players[seat].chips - 1, players[seat].chips, players[seat].chips + 1}

(***************************************************************************)
(* C11: when it is a human seat's turn on a street, a raise it submits is  *)
(* applied if and only if the amount is positive, at most the seat's       *)
(* chips, brings the seat's bet above the street's bet, and either raises  *)
(* by at least 20 (preflop) or 10 (later streets) above the call or is the *)
(* seat's whole stack; otherwise no chip, bet or flag changes.             *)
(***************************************************************************)
C11_RaiseLegality ==
    \A seat \in HumanSeats :
        (~crashed /\ onTurn(seat)) =>
            \E before \in {tableOf(Room)} :
                \A amount \in probeAmounts(seat) :
                    \E r \in {playerAction(Room, seat, action("raise", amount))} :
                        IF ruleLegalRaise(players[seat], hs, amount)
                        THEN r.res = "accepted" /\ raiseApplied(r.g, seat, amount)
                        ELSE r.res \in {"ignored", "rejected"} /\ tableOf(r.g) = before

\* a human seat has just gone all-in with a raise that was accepted
C11_Witness ==
    /\ last.op = "playerAction" /\ last.type = "raise" /\ last.res = "accepted"
    /\ hs.phase \in BettingPhases
    /\ players[last.seat].chips = 0 /\ players[last.seat].isAllIn

BotSeats == SeatIds \ HumanSeats

\* the call was applied for the seat: it wagered what it owed, or all it had,
\* is marked as having acted, and the move to the next seat was made
callApplied(g, seat) ==
    \E wager \in {Min(hs.currentBet - players[seat].currentBet, players[seat].chips)} :
        /\ g.players[seat].chips = players[seat].chips - wager
        /\ g.players[seat].currentBet = players[seat].currentBet + wager
        /\ g.players[seat].hasActed
        /\ g.pbr = pbrPending + 1

(***************************************************************************)
(* C12: every illegal raise a bot submits on its turn (amount 0 or less,   *)
(* an increase below the minimum raise that is not the whole stack, a      *)
(* total not above the street's bet, an amount above its chips) is applied *)
(* as a call: the bot wagers min(street bet - its bet, its chips), is      *)
(* marked hasActed, and the turn advances.                                 *)
(***************************************************************************)
C12_BotRaiseDowngraded ==
    \A seat \in BotSeats :
        (~crashed /\ onTurn(seat)) =>
            \A amount \in probeAmounts(seat) :
                ~ruleLegalRaise(players[seat], hs, amount) =>
                    \E r \in {handlePlayerAction(Room, seat, action("raise", amount))} :
                        callApplied(r.g, seat)

\* what a rejected submission must leave alone: every seat's chips, bet and
\* flags, and the whole hand state (street bet, pot, pots, phase, community
\* cards, currentPlayerIndex)
frameOf(g) == [table |-> [i \in 1..Len(g.players) |-> tableOf(g).seats[i]], hs |-> g.hs]

probeActions(seat) ==
    {action("fold", 0), action("check", 0), action("call", 0)}
        \cup {action("raise", amount) : amount \in probeAmounts(seat)}

ruleIllegal(seat, a) ==
    \/ a.type = "check" /\ players[seat].currentBet < hs.currentBet
    \/ a.type = "raise" /\ ~ruleLegalRaise(players[seat], hs, a.amount)

\* the submissions that are to be ignored
toBeIgnored(seat, a) ==
    \/ currentActor # seat
    \/ players[seat].hasActed
    \/ ruleIllegal(seat, a)

dueBettingRound ==
    []<>~(~crashed /\ pbrPending > 0) \/ []<><<BettingRound>>_vars
dueBotTurn ==
    []<>~(~crashed /\ withinBudget /\ thinking) \/ []<><<BotTurn>>_vars
dueTimerExpire ==
    []<>~(~crashed /\ turnTimer # 0 /\ pbrPending = 0 /\ pbaPending = 0
              /\ ~thinking /\ nextHand = 0 /\ withinBudget)
        \/ []<><<TimerExpire>>_vars
dueNextHand ==
    []<>~(~crashed /\ nextHand > 0 /\ handsStarted < MaxHands) \/ []<><<NextHand>>_vars
Fairness ==
    /\ WF_vars(BotActions)
    /\ dueBettingRound
    /\ dueBotTurn
    /\ dueTimerExpire
    /\ dueNextHand
SpecLive == Init /\ [][Next]_vars /\ Fairness

\* the first hand, on a street, with at least two active players, is waiting
\* for this seat to act
waitingFor(seat) ==
    /\ ~crashed /\ ~late
    /\ hs.phase \in BettingPhases
    /\ Len(activeOf(players)) >= 2
    /\ currentActor = seat
    /\ ~players[seat].hasActed

(***************************************************************************)
(* C14: a hand with at least two active players that is waiting for a      *)
(* human seat does not wait forever: if the seat submits nothing the turn  *)
(* timer applies a check or a fold for it.                                 *)
(***************************************************************************)
C14_TimerResponse ==
    \A seat \in HumanSeats : waitingFor(seat) ~> ~waitingFor(seat)

\* the seats in cyclic order after this seat, ending with the seat itself
seatsAfter(seat) == [k \in 1..NumSeats |-> ((seat + k - 1) % NumSeats) + 1]

\* the first seat after this one that is neither folded nor out of chips
ruleNextActor(ps, seat) ==
    seatsAfter(seat)[CHOOSE k \in 1..NumSeats :
                        /\ isActive(ps[seatsAfter(seat)[k]])
                        /\ \A j \in 1..(k - 1) : ~isActive(ps[seatsAfter(seat)[j]])]

actionApplied == last'.op \in actionOps /\ last'.res \in {"accepted", "downgraded"}

(***************************************************************************)
(* C15: after every accepted action that leaves some non-folded seat with  *)
(* chips, the current actor is the first seat in cyclic order after the    *)
(* seat that acted that is neither folded nor out of chips (so a folded or *)
(* zero-chip seat is never made the current actor).                        *)
(***************************************************************************)
C15_TurnOrder ==
    [][(actionApplied /\ activeOf(players') # <<>>)
          => /\ currentActor' = ruleNextActor(players', last'.seat)
             /\ isActive(players'[currentActor'])]_vars

\* an action was accepted on a street and the turn passed over the seat next
\* to the actor, which is folded or out of chips
C15_Witness ==
    /\ last.op \in actionOps /\ last.res = "accepted"
    /\ hs.phase \in BettingPhases
    /\ ~isActive(players[seatsAfter(last.seat)[1]])
    /\ currentActor = seatsAfter(last.seat)[2]
    /\ currentActor # last.seat

raiseAccepted == last'.op \in actionOps /\ last'.type = "raise" /\ last'.res = "accepted"

(***************************************************************************)
(* C16: an accepted raise sets hasActed to false for every other seat that *)
(* is non-folded with chips, leaves the raiser's hasActed true, makes the  *)
(* raiser's new bet the street's bet, strictly above the previous one, and *)
(* leaves every other seat's hasFolded, chips and currentBet unchanged.    *)
(***************************************************************************)
C16_RaiseReopens ==
    [][raiseAccepted =>
          /\ players'[last'.seat].hasActed
          /\ hs'.currentBet = players'[last'.seat].currentBet
          /\ hs'.currentBet > hs.currentBet
          /\ \A i \in SeatIds \ {last'.seat} :
                /\ isActive(players[i]) => ~players'[i].hasActed
                /\ players'[i].hasFolded = players[i].hasFolded
                /\ players'[i].chips = players[i].chips
                /\ players'[i].currentBet = players[i].currentBet]_vars

\* a raise was accepted on a street after another seat had acted: that seat
\* has to act again
C16_Witness ==
    /\ last.op \in actionOps /\ last.type = "raise" /\ last.res = "accepted"
    /\ hs.phase \in BettingPhases
    /\ \E i \in SeatIds \ {last.seat} :
          /\ isActive(players[i]) /\ ~players[i].hasActed
          /\ players[i].currentBet > 0 /\ players[i].currentBet < hs.currentBet
          /\ hs.phase # "preflop"

\* the step deals the next street of the hand
streetAdvances ==
    /\ hs.phase \in BettingPhases /\ hs'.phase \in BettingPhases
    /\ hs'.phase # hs.phase
    /\ handsStarted' = handsStarted

(***************************************************************************)
(* C17: the phase advances from one street to the next only in a state in  *)
(* which every non-folded seat with chips has acted and has a currentBet   *)
(* equal to the street's bet: no street is dealt while such a seat still   *)
(* has to respond to a wager.                                              *)
(***************************************************************************)
C17_StreetCompletion ==
    [][streetAdvances =>
          \A i \in SeatIds :
              isActive(players[i]) =>
                  players[i].hasActed /\ players[i].currentBet = hs.currentBet]_vars

\* the turn card has just been dealt after a flop on which chips were
\* wagered by at least two seats that still have chips
C17_Witness ==
    /\ last.op = "processBettingRound" /\ last.res = "turn"
    /\ hs.phase = "turn" /\ Len(hs.communityCards) = 4
    /\ Len(activeOf(players)) >= 2
    /\ Len(hs.pots) >= 2

botDecided == last'.op = "botTurn"

(***************************************************************************)
(* C18: the decision callback of a bot applies an action only if, when it  *)
(* runs, that bot is the current actor and has not yet acted on the        *)
(* current wager, and the bot has acted once it is applied; otherwise the  *)
(* callback changes no chips, bets, flags or hand state.  So several       *)
(* callbacks pending for one bot give it at most one action per turn.      *)
(***************************************************************************)
C18_StaleBotDecision ==
    [][botDecided =>
          IF last'.res \in {"accepted", "downgraded"}
          THEN /\ currentActor = last'.seat
               /\ ~players[last'.seat].hasActed
               /\ players'[last'.seat].hasActed
          ELSE frameOf([players |-> players', hs |-> hs']) = frameOf(Room)]_vars

(***************************************************************************)
(* A room whose bot is down to a few chips: after the small blind and a    *)
(* call the bot in seat 3 has 4 chips left on the flop                     *)
(***************************************************************************)
ShortBotStacks == {<<40, 40, 24>>}

InitShortBot ==
    /\ players \in {[i \in SeatIds |-> newPlayer(i, st[i], SeatIsBot[i])] : st \in ShortBotStacks}
    /\ hs = NoHand
    /\ deck = <<>>
    /\ roomDealer = 0
    /\ turnTimer = 0
    /\ pbrPending = 0
    /\ pbaPending = 0
    /\ botThink = [i \in SeatIds |-> 0]
    /\ nextHand = 0
    /\ handsStarted = 0
    /\ crashed = FALSE
    /\ lateActions = 0
    /\ last = [op |-> "none"]
    /\ evalIn = <<>>
    /\ evalOut = <<>>

SpecShortBot == InitShortBot /\ [][Next]_vars /\ Fairness

(***************************************************************************)
(* C19: the room never stalls on an automated seat: whenever a bot is the  *)
(* current actor, not yet acted, in a hand on a street with at least two   *)
(* active players, eventually an action of that bot is applied and the     *)
(* turn or the street moves on, whatever its policy decides.               *)
(***************************************************************************)
C19_BotNeverStalls == \A seat \in BotSeats : waitingFor(seat) ~> ~waitingFor(seat)

(***************************************************************************)
(* Bot.makeDecision computed as bot.js computes it, on sampled inputs.     *)
(* The code works in floating point; here the hand strength is counted in  *)
(* units of 1 / StrengthUnit, the personality in thousandths, the          *)
(* effective personality in ten-thousandths and the amount of a raise in   *)
(* tenths of a chip (chips * 0.2, * 0.3, * 0.4 and * 0.5 need not be       *)
(* whole).                                                                 *)
(***************************************************************************)
StrengthUnit == 70000000

decision(type, tenths) == [type |-> type, tenths |-> tenths]

\* Bot.evaluateHandStrength, in units of 1 / StrengthUnit
evaluateHandStrength(hand, communityCards) ==
    IF Len(hand) < 2 THEN 0
    ELSE
    LET allCards == hand \o communityCards
        isPair == hand[1].rank = hand[2].rank
        isSuited == hand[1].suit = hand[2].suit
        highCard == IF rankOrder[hand[1].rank] > rankOrder[hand[2].rank]
                    THEN rankOrder[hand[1].rank] ELSE rankOrder[hand[2].rank]
        strength == IF isPair THEN (700 + 30 * highCard) * 50000
                    ELSE IF isSuited THEN (490 + 20 * highCard) * 50000
                    ELSE (350 + 15 * highCard) * 50000
    IN  IF Len(allCards) >= 5
        THEN Min(evaluateHand(allCards).score, 10000000) * (StrengthUnit \div 10000000)
        ELSE Min(strength, (StrengthUnit \div 10) * 9)

\* Bot.makeDecision for a bot of this personality (in thousandths)
decide(bot, h, personality) ==
    IF bot.hasFolded \/ bot.isAllIn \/ bot.hasActed THEN decision("null", 0)
    ELSE
    LET handStrength == evaluateHandStrength(bot.hand, h.communityCards)
        callAmount == h.currentBet - bot.currentBet
        \* potOdds > 0.5, potOdds being pot / (pot + callAmount), or 0 with nothing to call
        goodOdds == callAmount > 0 /\ h.pot > callAmount
        canCheck == bot.currentBet >= h.currentBet
        \* personality + (1 - chips / 1000) * 0.3, in ten-thousandths
        effectivePersonality == 10 * personality + 3 * (1000 - bot.chips)
    IN  IF handStrength * 10 < StrengthUnit * 2
        THEN IF callAmount = 0 \/ (goodOdds /\ 10 * callAmount < bot.chips)
             THEN (IF canCheck THEN decision("check", 0) ELSE decision("fold", 0))
             ELSE decision("fold", 0)
        ELSE IF handStrength * 10 < StrengthUnit * 4
        THEN IF canCheck THEN decision("check", 0)
             ELSE IF 5 * callAmount > bot.chips THEN decision("fold", 0)
             ELSE IF 10 * callAmount < bot.chips THEN decision("call", 0)
             ELSE IF effectivePersonality > 5000 THEN decision("call", 0)
             ELSE decision("fold", 0)
        ELSE IF handStrength * 10 < StrengthUnit * 6
        THEN IF canCheck THEN decision("check", 0)
             ELSE IF 10 * callAmount > 3 * bot.chips THEN decision("fold", 0)
             ELSE IF 100 * callAmount < 15 * bot.chips
             THEN (IF effectivePersonality > 4000
                   THEN decision("raise", Min(10 * ((3 * callAmount) \div 2), 2 * bot.chips))
                   ELSE decision("call", 0))
             ELSE decision("call", 0)
        ELSE IF handStrength * 10 < StrengthUnit * 8
        THEN IF canCheck
             THEN LET betAmount == (bot.chips * 15 * (10000 + effectivePersonality)) \div 1000000
                  IN  decision("raise", 10 * Min(betAmount, bot.chips))
             ELSE IF 10 * callAmount > 4 * bot.chips THEN decision("call", 0)
             ELSE LET raiseAmount == (callAmount * (30000 + effectivePersonality)) \div 20000
                  IN  decision("raise", Min(10 * raiseAmount, 3 * bot.chips))
        ELSE IF canCheck
             THEN LET betAmount == (bot.chips * 2 * (10000 + effectivePersonality)) \div 100000
                  IN  decision("raise", Min(10 * betAmount, 4 * bot.chips))
             ELSE LET raiseAmount == (callAmount * (20000 + effectivePersonality)) \div 10000
                  IN  decision("raise", Min(10 * raiseAmount, 5 * bot.chips))

\* the inputs: the chips the bot has left, its hole cards, its personality,
\* and the street: first to act before the flop, the big blind's option,
\* first to act on a flop and facing a bet on a flop
DecideChips == {4, 52, 980, 1000}
DecidePersonalities == {0, 200, 600, 900}
DecideHands ==
    {<<Card("9", "S"), Card("9", "H")>>, <<Card("2", "C"), Card("7", "D")>>,
     <<Card("5", "C"), Card("6", "C")>>, <<Card("A", "S"), Card("A", "H")>>}
DecideFlops ==
    {<<Card("3", "D"), Card("8", "C"), Card("9", "D")>>,
     <<Card("9", "D"), Card("3", "D"), Card("3", "C")>>,
     <<Card("7", "C"), Card("8", "C"), Card("9", "C")>>}
DecideStreets ==
    {[phase |-> "preflop", communityCards |-> <<>>, bet |-> 0, currentBet |-> BigBlind, pot |-> 30],
     [phase |-> "preflop", communityCards |-> <<>>, bet |-> BigBlind, currentBet |-> BigBlind,
      pot |-> 60]}
        \cup {[phase |-> "flop", communityCards |-> f, bet |-> 0, currentBet |-> c, pot |-> 60 + c] :
                  f \in DecideFlops, c \in {0, BigBlind}}
DecideInputs ==
    {[bot |-> [newPlayer(NumSeats, chips, TRUE) EXCEPT !.hand = hand, !.currentBet = s.bet],
      h |-> [newHandState EXCEPT !.phase = s.phase, !.communityCards = s.communityCards,
                                 !.currentBet = s.currentBet, !.pot = s.pot,
                                 !.blindsPosted = TRUE],
      personality |-> personality] :
         chips \in DecideChips, hand \in DecideHands, s \in DecideStreets,
         personality \in DecidePersonalities}

InitDecide ==
    /\ GameIdle
    /\ evalIn \in {<<x>> : x \in DecideInputs}
    /\ evalOut = <<>>

Decide ==
    /\ Len(evalIn) = 1
    /\ evalOut = <<>>
    /\ evalOut' = <<decide(evalIn[1].bot, evalIn[1].h, evalIn[1].personality)>>
    /\ UNCHANGED <<evalIn, players, hs, deck, roomDealer, turnTimer, pbrPending,
                   pbaPending, botThink, nextHand, handsStarted, crashed, lateActions,
                   last>>

NextDecide == Decide
SpecDecide == InitDecide /\ [][NextDecide]_vars

\* the betting rules for a decision of this player in this hand state
ruleLegalDecision(p, h, d) ==
    CASE d.type \in {"fold", "call"} -> TRUE
      [] d.type = "check" -> p.currentBet >= h.currentBet
      [] d.type = "raise" -> d.tenths % 10 = 0 /\ ruleLegalRaise(p, h, d.tenths \div 10)
      [] OTHER -> FALSE

(***************************************************************************)
(* C20: for a bot that is to act (not folded, not all-in, not yet acted)   *)
(* makeDecision returns one action that the betting rules allow: a check   *)
(* only with nothing to call, a raise only by a whole amount above 0 and   *)
(* within the chips that brings the bot's bet above the street's bet and   *)
(* meets the minimum raise unless it is the whole stack.                   *)
(***************************************************************************)
C20_DecisionLegal ==
    evalOut # <<>> => ruleLegalDecision(evalIn[1].bot, evalIn[1].h, evalOut[1])

\* the seats that were dealt into the hand: those with chips before the blinds
postedOrFunded(p) == p.chips + p.currentBet > 0
bigBlindSeat == SelectSeq(players, postedOrFunded)[hs.bigBlindIndex + 1].id

\* a hand has just been started: blinds posted, nobody has acted or folded
handFresh ==
    /\ hs.phase = "preflop"
    /\ \A i \in SeatIds : ~players[i].hasActed /\ ~players[i].hasFolded

(***************************************************************************)
(* C21: the first action accepted in a hand, before the flop, is an action *)
(* of the first seat after the big blind, in seat order, that has not      *)
(* folded and has chips left; also when a blind was posted all-in.         *)
(***************************************************************************)
C21_FirstPreflopActor ==
    [][(handFresh /\ actionApplied /\ activeOf(players) # <<>>)
          => last'.seat = ruleNextActor(players, bigBlindSeat)]_vars

\* the seats that had chips when the hand was started: they have chips, a
\* bet on the table or a share in a pot
dealtIn(p) ==
    p.chips > 0 \/ p.currentBet > 0
        \/ \E k \in 1..Len(hs.pots) : p.id \in hs.pots[k].contributors
dealerSeat == SelectSeq(players, dealtIn)[hs.dealerIndex + 1].id

(***************************************************************************)
(* C22: every transition to the flop, the turn or the river completes and  *)
(* makes the current actor the first seat after the hand's dealer, in seat *)
(* order, that has not folded and has chips left, however many seats       *)
(* folded or went all-in earlier in the hand.                              *)
(***************************************************************************)
C22_FirstActorAfterDealer ==
    [][streetAdvances
          => /\ ~crashed'
             /\ currentActor' = ruleNextActor(players', dealerSeat)]_vars

\* a step in which endHand ran
settles == last'.op = "processBettingRound" /\ nextHand' = nextHand + 1
nonFolded == {i \in SeatIds : ~players[i].hasFolded}

\* the score of a seat's hole cards with the board
scoreOf(i) == evaluateDealt(players[i].hand \o hs.communityCards).score

\* the seats the rules pay from this pot: its non-folded contributors with
\* the highest score among them
rulePotWinners(pot) ==
    LET eligible == {i \in nonFolded : i \in pot.contributors}
    IN  {i \in eligible : \A j \in eligible : scoreOf(j) <= scoreOf(i)}
ruleShare(pot) == pot.amount \div Cardinality(rulePotWinners(pot))
rulePaidFrom(pot, i) == IF pot.amount > 0 /\ i \in rulePotWinners(pot) THEN ruleShare(pot) ELSE 0

(***************************************************************************)
(* C23: when a hand with more than one non-folded player is settled, each  *)
(* pot with chips in it pays exactly its non-folded contributors whose     *)
(* score is the highest among its non-folded contributors, each            *)
(* floor(amount / number of them); a folded contributor is paid nothing.   *)
(***************************************************************************)
C23_ContestedSettlement ==
    [][(settles /\ Cardinality(nonFolded) # 1)
          => \E pots \in {hs'.pots} :
                 /\ \A i \in SeatIds :
                       players'[i].chips
                           = players[i].chips
                                 + SumSeq([k \in 1..Len(pots) |-> rulePaidFrom(pots[k], i)])
                 /\ \A k \in 1..Len(pots), i \in SeatIds :
                       (\E n \in 1..Len(hs'.winners) :
                            /\ hs'.winners[n].playerId = i
                            /\ hs'.winners[n].potIndex = k - 1
                            /\ hs'.winners[n].share = ruleShare(pots[k]))
                           <=> rulePaidFrom(pots[k], i) > 0
                 /\ \A n \in 1..Len(hs'.winners) :
                       rulePaidFrom(pots[hs'.winners[n].potIndex + 1], hs'.winners[n].playerId) > 0]_vars

\* a hand has just been settled on a full board with two pots won by different
\* seats, one of them holding chips of a seat that folded
C23_Witness ==
    /\ last.op = "processBettingRound" /\ hs.phase = "showdown"
    /\ Cardinality(nonFolded) >= 2
    /\ Len(hs.communityCards) = 5
    /\ \E m, n \in 1..Len(hs.winners) :
          /\ hs.winners[m].potIndex # hs.winners[n].potIndex
          /\ hs.winners[m].playerId # hs.winners[n].playerId
    /\ \E i \in SeatIds, k \in 1..Len(hs.pots) :
          players[i].hasFolded /\ i \in hs.pots[k].contributors /\ hs.pots[k].amount > 0

\* the chips on the table: the pots and the bets of the street not yet collected
onTable ==
    SumSeq([k \in 1..Len(hs.pots) |-> hs.pots[k].amount])
        + SumSeq([i \in SeatIds |-> players[i].currentBet])
lastStanding == CHOOSE i \in nonFolded : TRUE
uncontested == hs.phase \in BettingPhases /\ Cardinality(nonFolded) = 1

(***************************************************************************)
(* C24: when all players but one have folded the hand is ended (the        *)
(* settlement is pending while the hand is still on a street) and settled  *)
(* without evaluating a hand: the remaining player's chips grow by all     *)
(* pots plus the bets of the current street, nobody else's chips change,   *)
(* and the winners list is one record for that player with no hand and the *)
(* amount won.                                                             *)
(***************************************************************************)
C24_UncontestedWin ==
    [][/\ (uncontested /\ ~crashed)' => pbrPending' > 0
       /\ (settles /\ uncontested)
             => /\ hs'.phase = "showdown"
                /\ \A i \in SeatIds :
                      players'[i].chips
                          = players[i].chips + (IF i = lastStanding THEN onTable ELSE 0)
                /\ Len(hs'.winners) = 1
                /\ hs'.winners[1].playerId = lastStanding
                /\ hs'.winners[1].hand = NullHand
                /\ hs'.winners[1].share = onTable]_vars

\* the first hand was just settled, once, after the flop for the last player
\* standing
C24_Witness ==
    /\ last.op = "processBettingRound" /\ hs.phase = "showdown"
    /\ Cardinality(nonFolded) = 1
    /\ Len(hs.winners) = 1 /\ hs.winners[1].hand = NullHand
    /\ Len(hs.communityCards) >= 3
    /\ hs.winners[1].share > 0
    /\ handsStarted = 1 /\ nextHand = 1

(***************************************************************************)
(* The state snapshots sent to the clients (index.js); a null hand is the  *)
(* empty sequence                                                          *)
(***************************************************************************)
\* broadcastGameState: the 'gameStateUpdate' message every seat of the room gets
broadcastGameState(g) ==
    LET isShowdown == g.hs.phase = "showdown"
    IN  [players |-> [i \in 1..Len(g.players) |->
                        [id |-> g.players[i].id, chips |-> g.players[i].chips,
                         currentBet |-> g.players[i].currentBet,
                         hasFolded |-> g.players[i].hasFolded,
                         isAllIn |-> g.players[i].isAllIn,
                         hasActed |-> g.players[i].hasActed,
                         hand |-> IF isShowdown /\ ~g.players[i].hasFolded
                                  THEN g.players[i].hand ELSE <<>>]],
         handState |-> IF g.hs.phase = "none" THEN [phase |-> "none"]
                       ELSE [phase |-> g.hs.phase, communityCards |-> g.hs.communityCards,
                             pot |-> g.hs.pot, currentBet |-> g.hs.currentBet,
                             currentPlayerIndex |-> g.hs.currentPlayerIndex,
                             dealerIndex |-> g.hs.dealerIndex, winners |-> g.hs.winners]]

\* broadcastHandState: the 'handStateUpdate' message this seat gets
broadcastHandState(g, seat) ==
    IF g.hs.phase = "none" THEN [phase |-> "none"]
    ELSE [phase |-> g.hs.phase, communityCards |-> g.hs.communityCards,
          pot |-> g.hs.pot, currentBet |-> g.hs.currentBet,
          currentPlayerIndex |-> g.hs.currentPlayerIndex,
          dealerIndex |-> g.hs.dealerIndex,
          activePots |-> [k \in 1..Len(g.hs.pots) |-> [amount |-> g.hs.pots[k].amount]],
          myHand |-> g.players[seat].hand, myPlayerId |-> seat]

messagesTo(g, seat) == <<broadcastGameState(g), broadcastHandState(g, seat)>>

\* the cards of the hand fields of the messages a seat gets: the players'
\* hands, its own hand and the cards of the winners' evaluated hands
cardsOfSeq(s) == {s[i] : i \in 1..Len(s)}
handCardsSent(g, seat) ==
    LET m == messagesTo(g, seat)
        shown == UNION {cardsOfSeq(m[1].players[i].hand) : i \in 1..Len(m[1].players)}
        mine == IF g.hs.phase = "none" THEN {} ELSE cardsOfSeq(m[2].myHand)
        won == IF g.hs.phase = "none" THEN {}
               ELSE UNION {IF "cards" \in DOMAIN m[1].handState.winners[n].hand
                           THEN cardsOfSeq(m[1].handState.winners[n].hand.cards) ELSE {} :
                              n \in 1..Len(m[1].handState.winners)}
    IN  shown \cup mine \cup won

\* the room with the hole cards of the seats other than this one replaced
AltHands == {[i \in SeatIds |-> <<d[2 * i - 1], d[2 * i]>>] : d \in SampleDeals}
withOtherHands(g, seat, alt) ==
    [g EXCEPT !.players = [i \in 1..Len(g.players) |->
                              IF i = seat THEN g.players[i]
                              ELSE [g.players[i] EXCEPT !.hand = alt[i]]]]

(***************************************************************************)
(* C25: while the phase is not showdown the messages a seat gets hold no   *)
(* hole card of another seat and are the same whatever hole cards the      *)
(* other seats hold; and in every phase they hold no hole card of another  *)
(* seat that has folded.                                                   *)
(***************************************************************************)
C25_HoleCardConfidentiality ==
    \A seat \in HumanSeats :
        \E sent \in {handCardsSent(Room, seat)} :
            \A other \in SeatIds \ {seat} :
                /\ hs.phase # "showdown"
                      => /\ cardsOfSeq(players[other].hand) \cap sent = {}
                         /\ \A alt \in AltHands :
                               messagesTo(withOtherHands(Room, seat, alt), seat)
                                   = messagesTo(Room, seat)
                /\ players[other].hasFolded
                      => cardsOfSeq(players[other].hand) \cap sent = {}

\* the list every handler filters before it looks a seat up by index
inHand == hs.phase \in BettingPhases /\ activeOf(players) # <<>>
validIndex(index, list) == (index + 1) \in DOMAIN list

(***************************************************************************)
(* C26: throughout a hand, while some seat is active, currentPlayerIndex   *)
(* is an index of the list of active seats (non-folded, with chips), and   *)
(* whenever a street transition looks the dealer up, dealerIndex is an     *)
(* index of that list and designates the seat that was the dealer when the *)
(* hand was started.                                                       *)
(***************************************************************************)
C26_IndicesValid ==
    [][/\ inHand' => validIndex(hs'.currentPlayerIndex, activeOf(players'))
       /\ streetAdvances
             => /\ validIndex(hs.dealerIndex, activeOf(players))
                /\ activeOf(players)[hs.dealerIndex + 1].id = dealerSeat]_vars

(***************************************************************************)
(* C27: whenever a hand is on a betting street, at least two active        *)
(* players remain and the current actor is a human seat that has not acted *)
(* yet, the turn countdown captured for exactly that seat is pending; also *)
(* right after a street transition changed the current actor.              *)
(***************************************************************************)
hasToAct(seat) ==
    /\ ~crashed
    /\ hs.phase \in BettingPhases
    /\ Len(activeOf(players)) >= 2
    /\ currentActor = seat
    /\ ~players[seat].hasActed

C27_CountdownPending ==
    \A seat \in HumanSeats : hasToAct(seat) => turnTimer = seat

(***************************************************************************)
(* C28: a countdown that fires for a seat that is no longer the current    *)
(* actor, or that has already acted on the street, forces no check or fold *)
(* on it: the expiry changes no player's chips, bets or flags and nothing  *)
(* of the hand.                                                            *)
(***************************************************************************)
timerFires == turnTimer # 0 /\ last'.op = "timeout"
staleTimer == currentActor # turnTimer \/ players[turnTimer].hasActed

C28_StaleTimerInert ==
    [][(timerFires /\ staleTimer)
          => /\ last'.res = "ignored"
             /\ players' = players
             /\ hs' = hs]_vars

\* a countdown captured for a seat fired on a street while another seat was
\* the current actor, and was dropped
C28_Witness ==
    /\ last.op = "timeout" /\ last.res = "ignored"
    /\ hs.phase \in BettingPhases
    /\ currentActor \notin {0, last.seat}
    /\ Len(activeOf(players)) >= 2

(***************************************************************************)
(* C29: when the current human actor, whose turn countdown is pending,     *)
(* submits a check while facing a wager or an illegal raise, the countdown *)
(* for that seat is still pending after the submission was rejected.       *)
(***************************************************************************)
illegalSubmissions(seat) ==
    (IF players[seat].currentBet < hs.currentBet THEN {action("check", 0)} ELSE {})
        \cup {action("raise", amount) :
                 amount \in {a \in probeAmounts(seat) : ~ruleLegalRaise(players[seat], hs, a)}}

C29_RejectionKeepsCountdown ==
    \A seat \in HumanSeats :
        (~crashed /\ onTurn(seat) /\ turnTimer = seat) =>
            \A a \in illegalSubmissions(seat) :
                \E r \in {playerAction(Room, seat, a)} :
                    /\ r.res \in {"ignored", "rejected"}
                    /\ r.g.turnTimer = seat

(***************************************************************************)
(* C30: within a hand the phase only moves forward in the order preflop,   *)
(* flop, turn, river, showdown; the board has 0 cards in preflop, 3 in     *)
(* flop, 4 in turn and 5 in river; the board never shrinks and a card      *)
(* already on it is never replaced.                                        *)
(***************************************************************************)
phaseOrder == <<"preflop", "flop", "turn", "river", "showdown">>
positionOf(phase) == CHOOSE k \in 1..Len(phaseOrder) : phaseOrder[k] = phase
boardSize == [preflop |-> 0, flop |-> 3, turn |-> 4, river |-> 5]
sameHand == hs.phase # "none" /\ handsStarted' = handsStarted

C30_PhasesAndBoard ==
    [][/\ hs'.phase \in BettingPhases => Len(hs'.communityCards) = boardSize[hs'.phase]
       /\ sameHand =>
            /\ positionOf(hs'.phase) >= positionOf(hs.phase)
            /\ Len(hs'.communityCards) >= Len(hs.communityCards)
            /\ SubSeq(hs'.communityCards, 1, Len(hs.communityCards)) = hs.communityCards]_vars

\* the river has been dealt on top of the turn, and the hand went on to the
\* showdown with the same five cards
C30_Witness ==
    /\ hs.phase = "showdown" /\ Len(hs.communityCards) = 5
    /\ last.op = "processBettingRound"
    /\ handsStarted = 1

(***************************************************************************)
(* C31: an accepted call moves exactly min(street's bet - seat's bet,      *)
(* seat's chips) from the seat's chips to its bet and sets hasActed; the   *)
(* seat is all-in afterwards exactly when the call left it no chips; a     *)
(* call the seat cannot cover leaves its bet below the street's bet; the   *)
(* street's bet does not change.                                           *)
(***************************************************************************)
ruleCallAmount(p, h) == Min(h.currentBet - p.currentBet, p.chips)

callEffect ==
    \E p \in {players[last'.seat]} : \E q \in {players'[last'.seat]} :
        /\ q.chips = p.chips - ruleCallAmount(p, hs)
        /\ q.currentBet = p.currentBet + ruleCallAmount(p, hs)
        /\ q.hasActed
        /\ q.isAllIn <=> (q.chips = 0)
        /\ (hs.currentBet - p.currentBet > p.chips) => q.currentBet < hs.currentBet
        /\ hs'.currentBet = hs.currentBet

C31_CallMechanics ==
    [][(last'.op \in actionOps /\ last'.type = "call" /\ last'.res = "accepted")
          => callEffect]_vars

(***************************************************************************)
(* C32: while a hand is on a betting street the street's currentBet is the *)
(* greatest currentBet of the players: no player has a greater one, also   *)
(* right after short stacks posted the blinds.                             *)
(***************************************************************************)
\* a table whose first big blind (seat 1) holds fewer chips than the small
\* blind
ShortBlindStacks == {<<5, 60, 60>>, <<5, 60, 30>>}

InitShortBlind ==
    /\ players \in {[i \in SeatIds |-> newPlayer(i, st[i], SeatIsBot[i])] : st \in ShortBlindStacks}
    /\ hs = NoHand
    /\ deck = <<>>
    /\ roomDealer = 0
    /\ turnTimer = 0
    /\ pbrPending = 0
    /\ pbaPending = 0
    /\ botThink = [i \in SeatIds |-> 0]
    /\ nextHand = 0
    /\ handsStarted = 0
    /\ crashed = FALSE
    /\ lateActions = 0
    /\ last = [op |-> "none"]
    /\ evalIn = <<>>
    /\ evalOut = <<>>

SpecShortBlind == InitShortBlind /\ [][Next]_vars /\ Fairness

C32_StreetBetIsHighest ==
    hs.phase \in BettingPhases =>
        /\ \A i \in SeatIds : players[i].currentBet <= hs.currentBet
        /\ \E i \in SeatIds : players[i].currentBet = hs.currentBet

(***************************************************************************)
(* C33: collectBets on players with non-negative bets terminates; after it *)
(* every player's currentBet is 0, the pot amounts have grown in sum by    *)
(* exactly the bets collected, and every player who had a positive bet is  *)
(* a contributor of some pot; collectBets run again at once changes no     *)
(* amount and no contributor set and opens no pot.                         *)
(***************************************************************************)
potAmounts(pots) == SumSeq([k \in 1..Len(pots) |-> pots[k].amount])

C33_CollectBets ==
    [][last'.op = "collectBets" =>
          /\ \A i \in 1..Len(players) : players'[i].currentBet = 0
          /\ potAmounts(hs'.pots) = potAmounts(hs.pots) + betsOf(players)
          /\ \A i \in 1..Len(players) :
                players[i].currentBet > 0 =>
                    \E k \in 1..Len(hs'.pots) : players[i].id \in hs'.pots[k].contributors
          /\ collectBets(hs'.pots, players') = [pots |-> hs'.pots, players |-> players']]_vars

\* three different bets, the two smaller ones all-in, were collected into
\* three pots
C33_Witness ==
    /\ last.op = "collectBets"
    /\ betsIn = <<500, 100, 200, 0>>
    /\ evalIn[1][2].isAllIn /\ evalIn[1][3].isAllIn /\ ~evalIn[1][1].isAllIn
    /\ Len(hs.pots) = 3
    /\ potAmounts(hs.pots) = 800
    /\ \A i \in 1..Len(players) : players[i].currentBet = 0

(***************************************************************************)
(* C34: a hand is never settled while a non-folded player with chips      *)
(* faces a wager it has not answered (its bet is below the street's bet    *)
(* and it has not acted since); with two or more non-folded players the    *)
(* hand is settled only after the betting round was complete.              *)
(***************************************************************************)
facesWager(i) ==
    /\ ~players[i].hasFolded
    /\ players[i].chips > 0
    /\ players[i].currentBet < hs.currentBet
    /\ ~players[i].hasActed
roundComplete ==
    \A i \in SeatIds :
        isActive(players[i]) =>
            /\ players[i].hasActed \/ players[i].isAllIn
            /\ players[i].currentBet = hs.currentBet \/ players[i].isAllIn

C34_NoSettlementBeforeAnswer ==
    [][(settles /\ hs.phase \in BettingPhases) =>
          /\ \A i \in SeatIds : ~facesWager(i)
          /\ Cardinality(nonFolded) >= 2 => roundComplete]_vars

(***************************************************************************)
(* C35: showdown is terminal: once the phase is showdown no submitted      *)
(* action, timer expiry, bot decision or round-processing callback changes *)
(* a player's chips, currentBet, hasFolded or hasActed, or a pot, until    *)
(* the next hand is started.                                               *)
(***************************************************************************)
standing(ps) ==
    [i \in 1..Len(ps) |-> [chips |-> ps[i].chips, currentBet |-> ps[i].currentBet,
                           hasFolded |-> ps[i].hasFolded, hasActed |-> ps[i].hasActed]]

C35_ShowdownTerminal ==
    [][(hs.phase = "showdown" /\ last'.op # "startHand")
          => /\ standing(players') = standing(players)
             /\ hs'.pots = hs.pots]_vars

(***************************************************************************)
(* C36: a started hand can always go on towards its showdown: there is no  *)
(* reachable state in which the phase is not showdown, no callback is      *)
(* pending, and no action of any seat, of the timer or of a bot can be     *)
(* accepted any more.                                                      *)
(***************************************************************************)
deadEnd ==
    /\ ~crashed
    /\ hs.phase \in BettingPhases
    /\ pbrPending = 0 /\ pbaPending = 0 /\ ~thinking
    /\ \A seat \in HumanSeats : \A a \in clientActions(seat) :
           playerAction(Room, seat, a).res # "accepted"
    /\ \/ turnTimer = 0
       \/ handlePlayerAction([Room EXCEPT !.turnTimer = 0], turnTimer, timerAction(Room)).res
             # "accepted"

C36_NoDeadEnd == ~deadEnd

(***************************************************************************)
(* Inputs of 5, 6 and 7 distinct cards for evaluateHand: every selection   *)
(* of that many cards out of a sample of nine, in the sample's order and   *)
(* in the reverse order                                                    *)
(***************************************************************************)
BestSample ==
    <<Card("2", "H"), Card("3", "H"), Card("4", "H"), Card("5", "H"), Card("A", "H"),
      Card("A", "S"), Card("5", "S"), Card("9", "D"), Card("9", "C")>>
BestInputs ==
    UNION {{filterAt(BestSample, S), reverse(filterAt(BestSample, S))} :
              S \in {T \in SUBSET (1..Len(BestSample)) : Cardinality(T) \in {5, 6, 7}}}

InitBest ==
    /\ GameIdle
    /\ evalIn \in {<<c>> : c \in BestInputs}
    /\ evalOut = <<>>

SpecBest == InitBest /\ [][NextSeven]_vars

(***************************************************************************)
(* C37: for 5, 6 or 7 distinct cards the score evaluateHand returns is the *)
(* greatest five-card score over the five-card subsets of the input (1, 6  *)
(* or 21 of them, each considered exactly once), and the category and      *)
(* cards returned are those of a subset with that score.                   *)
(***************************************************************************)
fiveSubsets(cards) == {S \in SUBSET (1..Len(cards)) : Cardinality(S) = 5}

C37_BestOfSubsets ==
    (Len(evalIn) = 1 /\ Len(evalOut) = 1 /\ Len(evalIn[1]) \in 5..7) =>
        \E cards \in {evalIn[1]} : \E combos \in {getCombinations(evalIn[1], 5)} :
            /\ Len(combos) = CASE Len(cards) = 5 -> 1 [] Len(cards) = 6 -> 6 [] OTHER -> 21
            /\ {cardsOfSeq(combos[j]) : j \in 1..Len(combos)}
                  = {cardsOfSeq(filterAt(cards, S)) : S \in fiveSubsets(cards)}
            /\ Cardinality({cardsOfSeq(combos[j]) : j \in 1..Len(combos)}) = Len(combos)
            /\ \A S \in fiveSubsets(cards) :
                  evaluateFiveCards(filterAt(cards, S)).score <= evalOut[1].score
            /\ \E S \in fiveSubsets(cards) : evaluateFiveCards(filterAt(cards, S)) = evalOut[1]

\* seven cards were scored: the result is the evaluation of one of their 21
\* five-card subsets, and another subset scores less
C37_Witness ==
    /\ Len(evalIn) = 1 /\ Len(evalOut) = 1
    /\ Len(evalIn[1]) = 7
    /\ Cardinality(fiveSubsets(evalIn[1])) = 21
    /\ cardsOfSeq(evalOut[1].cards) \subseteq cardsOfSeq(evalIn[1])
    /\ \E S \in fiveSubsets(evalIn[1]) :
           evaluateFiveCards(filterAt(evalIn[1], S)).score < evalOut[1].score

(***************************************************************************)
(* C38: between the posting of the blinds and the settlement no operation  *)
(* increases a player's chips or takes back chips the player has wagered:  *)
(* a currentBet decreases only when collectBets moves it into a pot, and   *)
(* every call and raise moves a non-negative number of chips.              *)
(***************************************************************************)
C38_WagersStay ==
    [][(hs.phase \in BettingPhases /\ hs'.phase \in BettingPhases
           /\ handsStarted' = handsStarted) =>
          /\ \A i \in SeatIds : players'[i].chips <= players[i].chips
          /\ (\E i \in SeatIds : players'[i].currentBet < players[i].currentBet)
                => /\ last'.op = "processBettingRound"
                   /\ \A i \in SeatIds : players'[i].currentBet = 0
                   /\ potAmounts(hs'.pots) = potAmounts(hs.pots) + betsOf(players)]_vars

(***************************************************************************)
(* C39: a new hand is started only from a settled hand and once per        *)
(* settled hand: startHand runs only in phase showdown (or before the      *)
(* first hand), and no next-hand callback of an earlier settlement is left *)
(* pending while a hand is in progress.                                    *)
(***************************************************************************)
C39_OneStartPerHand ==
    [][/\ last'.op = "startHand" => hs.phase \in {"none", "showdown"}
       /\ hs'.phase \in BettingPhases => nextHand' = 0]_vars

(***************************************************************************)
(* C40: a completed betting street causes exactly one street transition,   *)
(* however many processBettingRound callbacks are pending: the callback    *)
(* that finds the street complete advances the phase by one step and deals *)
(* the cards of that step once, and a callback still pending after it      *)
(* advances nothing and deals nothing.                                     *)
(***************************************************************************)
C40_OneTransitionPerStreet ==
    [][(/\ last'.op = "processBettingRound"
        /\ hs.phase \in BettingPhases /\ hs'.phase \in BettingPhases
        /\ hs'.phase # hs.phase) =>
          /\ positionOf(hs'.phase) = positionOf(hs.phase) + 1
          /\ Len(hs'.communityCards) - Len(hs.communityCards)
                = boardSize[hs'.phase] - boardSize[hs.phase]
          /\ Len(deck) - Len(deck') = boardSize[hs'.phase] - boardSize[hs.phase]
          /\ \A i \in SeatIds : isActive(players[i]) => players[i].hasActed
          /\ (~crashed /\ pbrPending > 0)' =>
                (\E g \in {processBettingRound(Room)} :
                    /\ g.hs.communityCards = hs.communityCards
                    /\ g.deck = deck
                    /\ g.hs.phase \in {hs.phase, "showdown"})']_vars

\* the flop was dealt by one callback while another one was pending, and that
\* one has run since without dealing anything
C40_Witness ==
    /\ last.op = "processBettingRound" /\ last.res = "flop"
    /\ hs.phase = "flop" /\ Len(hs.communityCards) = 3
    /\ Len(deck) = Len(DealA) - 2 * NumSeats - 3
    /\ pbrPending = 0 /\ pbaPending >= 2
    /\ handsStarted = 1

====
